---------------------------- MODULE Spec2Model ----------------------------
(***************************************************************************)
(* A model of the comunifi relay: the user-operation bundler               *)
(* (internal/queue/userop.go), the response channel of queued messages     *)
(* (pkg/relay/queue.go), the bounded retry queue, the NIP-29 group         *)
(* enforcer (internal/nostr/events.go, package groups), the indexer, the   *)
(* WebSocket pools (internal/ws/pools.go), Blossom uploads and their       *)
(* membership check, the topic decoder (pkg/relay/topic.go) alone and      *)
(* inside the indexer's workers, and the paymaster's bulk sponsoring.      *)
(*                                                                         *)
(* Each subsystem has its own specification over the shared variables; the *)
(* variables of the other subsystems stay at their initial values.         *)
(***************************************************************************)
EXTENDS Integers, Sequences, FiniteSets, TLC

(***************************************************************************)
(* Bounds of the model.                                                    *)
(***************************************************************************)
MaxTx == 3          \* transactions signed in one behaviour of SpecNonce
MaxBatch == 2       \* messages handed to one Process call
MaxBump == 1        \* largest bumpGas carried by an incoming message
MaxResponds == 2    \* Respond calls on one message
MaxMsgs == 3        \* messages the producers offer to the queue
Buffer == 2         \* buffer size B of the queue
RetryLimit == 3     \* retry limit R: NewService("tx", 3, 10, nil)
MaxMod == 3         \* moderation events stored for the group
MaxInFlight == 2    \* events being handled by the relay at the same time
MaxCallers == 3     \* concurrent eth_sendUserOperation requests
MaxEvents == 2      \* registered events, one indexer worker each
MaxResubs == 2      \* backoffs of the listeners that are counted
MaxHashes == 2      \* distinct log hashes
MaxDeliveries == 2  \* deliveries of the same log to its worker
MaxPairs == 2       \* parameters of a query string
MaxSubs == 3        \* WebSocket subscribers
MaxPools == 3       \* pool objects created
MaxUploads == 3     \* blob uploads
MaxArgs == 2        \* arguments of an event signature
MaxAmount == 3      \* largest amount a caller asks for

\* the amount of pm_ooSponsorUserOperation when the parameter is no amount
DefaultAmount == 10

\* NIP-29 event kinds (internal/nostr/events.go)
KindPutUser == 9000
KindRemoveUser == 9001
KindEditMetadata == 9002
KindDeleteEvent == 9005
KindCreateGroup == 9007
KindDeleteGroup == 9008
KindJoinRequest == 9021
KindLeaveRequest == 9022
KindGroupChat == 9
KindGroupReply == 10
KindGroupThreaded == 11
KindGroupChatReply == 12

Sponsors == {"S1", "S2"}
InitialNonces == {5}
Builds == {"legacy", "nostr"}
NoSponsor == "none"

VARIABLES
    build,        \* which copy of the bundler is compiled in
    chainNonce,   \* sponsor -> NonceAt(sponsor, latest)
    mempool,      \* transactions the node accepted and has not mined
    inProgress,   \* UserOpService.inProgress: sponsor -> sequence of hashes
    waiters,      \* running tx-waiter goroutines
    txSeq,        \* number of transactions signed so far
    called,       \* SpecBundler: the Process call under study has started
    ppc,          \* position of the Process call in flight
    batch,        \* the messages of the Process call in flight
    todo,         \* sponsors of txmBySponsor not yet iterated
    cur,          \* sponsor of the current iteration
    nonce,        \* local variable nonce
    curTx,        \* local variable signedTxHash (0: none signed yet)
    respIdx,      \* index of the respond loop
    invalid,      \* returned invalid list (indices into batch)
    errors,       \* returned errors list
    accepted,     \* history: sponsor -> nonces sendTransaction accepted
    quiet,        \* history: sponsor -> no receipt, no failure so far
    sentWaiting,  \* history: callers waiting when the last send succeeded
    smu           \* s.mu: {} when free, else {the tx-waiter holding it}

VARIABLES
    hasChan,      \* Message.Response # nil (NewTxMessage makes a channel)
    chClosed,     \* the response channel was closed
    respondPc,    \* position of the producer in Respond
    responds,     \* number of Respond calls so far
    copyNil,      \* the producer's copy of the message has Response = nil
    recovered,    \* a send panicked and the deferred recover caught it
    sending,      \* the MessageResponse the producer is sending
    waitPc,       \* position of the consumer in WaitForResponse
    waitResult,   \* what WaitForResponse returned
    elapsed,      \* seconds since WaitForResponse started
    deadline      \* seconds of the time.After in WaitForResponse

VARIABLES
    queue,        \* buffered messages of the queue Service
    qbatch,       \* batch drained by the worker, not yet processed
    qinvalid,     \* invalid messages returned by Process, not yet handled
    qpc,          \* position of the worker
    processed,    \* message id -> number of times passed to Process
    errChan,      \* errors emitted on the error channel
    nextId,       \* number of messages the producers offered
    qaccepted     \* messages enqueue accepted from the producers

VARIABLES
    sendPc,       \* request -> position of Service.Send
    sendResult,   \* request -> what Service.Send returned
    sendElapsed   \* request -> seconds spent in WaitForResponse

VARIABLES
    ctxDone,      \* the process-wide context is cancelled
    nodeUp,       \* the transport to the node works
    lpc,          \* event -> position of its ListenForLogs loop
    resubs,       \* backoffs of the loops so far (saturating)
    wpc,          \* event -> position of its ListenToLogs worker
    werr,         \* event -> last error met by its worker
    startPc,      \* position of Indexer.Start
    startErr      \* what Indexer.Start returned

VARIABLES
    dataDB,       \* log hash -> pending extraData row of t_logs_data
    described,    \* log hash -> what the bundler attached to the hash
    delivered,    \* log hash -> deliveries of the log so far
    reposts,      \* log hash -> quote-reposts saved for the log
    rwpc,         \* position of the worker after saving the log's event
    rwcur         \* hash of the log the worker is handling, 0 if none

VARIABLES
    mqPairs,      \* the parameters the query string is joined from
    mqData,       \* the log's data: whether it unmarshals, and its object
    mqResult      \* <<>> or <<answer of MatchesQuery>>

VARIABLES
    registry,     \* p.pools: pool id -> pool object, 0 without an entry
    poolOpen,     \* pool object -> whether the pool is open
    poolConns,    \* pool object -> subscribers registered in it
    nPools,       \* pool objects created so far
    spc,          \* subscriber -> position in ConnectionPools.Connect
    sQuery,       \* subscriber -> raw query of its request
    sPool,        \* subscriber -> pool object Connect chose for it
    mu,           \* holder of p.mu: "free", "connect" or "broadcast"
    bpc,          \* position of BroadcastMessage
    bMsg,         \* the message being broadcast
    bPool,        \* the pool object BroadcastMessage found
    bQueries,     \* queries of pool.Queries() not yet visited
    bGot,         \* subscribers the bytes were written to
    renders       \* json.Marshal calls for the message

VARIABLES
    pendingUploads, \* sha256 -> group of the last admitted upload, or "absent"
    upc,          \* upload -> position between rejectUpload and storeBlob
    usha,         \* upload -> sha256 of its auth event's x tag
    ugroup,       \* upload -> group of its auth event's h tag, "" if none
    ukey,         \* upload -> S3 key its blob was put under
    s3            \* keys of the objects in the bucket

VARIABLES
    tsSig,        \* the event signature: its name and its arguments
    tsHashes,     \* number of topic hashes of the raw log
    tsDataOk,     \* whether the log's data unpacks under the event's ABI
    tsResult      \* <<>> or <<outcome of decoding and validating>>

VARIABLES
    spAmount,     \* the fourth parameter of pm_ooSponsorUserOperation
    spRequest,    \* what the other checks of the handler find
    spResult      \* <<>> or <<result of the handler>>

VARIABLES
    identity      \* queued message -> its Message.ID, <<>> before it exists

VARIABLES
    admission     \* <<>> or <<the last upload's membership check>>

VARIABLES
    modLog,       \* stored moderation events of the group, in storage order
    adminsEv,     \* latest kind-39001 event: <<>> or <<set of pubkeys>>
    membersEv,    \* latest kind-39002 event: <<>> or <<set of pubkeys>>
    inflight,     \* admitted moderation events whose handling is not over
    verdict       \* <<>> or <<answer of ValidateEvent to the last event>>

bundlerVars == <<build, called, chainNonce, mempool, inProgress, waiters,
                 txSeq, ppc, batch, todo, cur, nonce, curTx, respIdx,
                 invalid, errors, accepted, quiet, sentWaiting, smu>>

msgVars == <<hasChan, chClosed, respondPc, responds, copyNil, recovered,
             sending, waitPc, waitResult, elapsed, deadline>>

queueVars == <<queue, qbatch, qinvalid, qpc, processed, errChan, nextId,
               qaccepted>>

groupVars == <<modLog, adminsEv, membersEv, inflight, verdict>>

sendVars == <<sendPc, sendResult, sendElapsed>>

indexerVars == <<ctxDone, nodeUp, lpc, resubs, wpc, werr, startPc, startErr>>

repostVars == <<dataDB, described, delivered, reposts, rwpc, rwcur>>

matchVars == <<mqPairs, mqData, mqResult>>

wsVars == <<registry, poolOpen, poolConns, nPools, spc, sQuery, sPool, mu,
            bpc, bMsg, bPool, bQueries, bGot, renders>>

blobVars == <<pendingUploads, upc, usha, ugroup, ukey, s3>>

\* the variables of the subsystems added after the first six
topicVars == <<tsSig, tsHashes, tsDataOk, tsResult>>

sponsorVars == <<spAmount, spRequest, spResult>>

moreVars == <<repostVars, matchVars, wsVars, blobVars, identity, topicVars,
             sponsorVars, admission>>

vars == <<bundlerVars, msgVars, queueVars, groupVars, sendVars, indexerVars,
          moreVars>>

\* the variables the bundler never touches
notBundler == <<msgVars, queueVars, groupVars, sendVars, indexerVars,
    moreVars>>
\* the variables the response channel never touches
notMsg == <<bundlerVars, queueVars, groupVars, sendVars, indexerVars,
    moreVars>>
\* the variables the queue never touches
notQueue == <<bundlerVars, msgVars, groupVars, sendVars, indexerVars,
    moreVars>>
\* the variables the group enforcer never touches
notGroups == <<bundlerVars, msgVars, queueVars, sendVars, indexerVars,
    moreVars>>
\* the variables Service.Send and the worker serving it never touch
notSend == <<bundlerVars, msgVars, groupVars, indexerVars, moreVars, qbatch,
             qinvalid, qpc, processed, nextId, qaccepted>>
\* the variables the indexer never touches
notIndexer == <<bundlerVars, msgVars, queueVars, groupVars, sendVars,
                moreVars>>
\* the first six subsystems
coreVars == <<bundlerVars, msgVars, queueVars, groupVars, sendVars,
              indexerVars>>

\* the variables the pending-description worker never touches
notRepost == <<coreVars, matchVars, wsVars, blobVars, identity,
    topicVars, sponsorVars, admission>>
\* the variables MatchesQuery never touches
notMatch == <<coreVars, repostVars, wsVars, blobVars, identity,
    topicVars, sponsorVars, admission>>
\* the variables the WebSocket pools never touch
notWs == <<coreVars, repostVars, matchVars, blobVars, identity,
    topicVars, sponsorVars, admission>>
\* the variables the Blossom service never touches
notBlob == <<coreVars, repostVars, matchVars, wsVars, identity,
    topicVars, sponsorVars, admission>>
\* the variables besides the queue's that an enqueue never touches
notEnqueue == <<bundlerVars, msgVars, groupVars, sendVars, indexerVars,
                repostVars, matchVars, wsVars, blobVars, topicVars,
                sponsorVars, admission>>
\* the variables the topic decoder never touches
notTopics == <<coreVars, repostVars, matchVars, wsVars, blobVars, identity,
              sponsorVars, admission>>
\* the variables neither the indexer nor the topic decoder touches
notDecode == <<bundlerVars, msgVars, queueVars, groupVars, sendVars,
               repostVars, matchVars, wsVars, blobVars, identity,
               sponsorVars, admission>>
\* the variables the paymaster never touches
notSponsor == <<coreVars, repostVars, matchVars, wsVars, blobVars, identity,
               topicVars, admission>>

(***************************************************************************)
(* Helpers.                                                                *)
(***************************************************************************)
Range(s) == {s[i] : i \in 1..Len(s)}

\* a filter that removes nothing
KeepAll(list, hash) == list

\* comm.Filter(list, func(s) bool { return s != hash })
FilterOut(list, hash) == SelectSeq(list, LAMBDA h : h # hash)

\* a sequence of n copies of e
Repeat(e, n) == [i \in 1..n |-> e]

\* indices of the batch that were grouped under sponsor s, in batch order
RECURSIVE IdxOf(_, _, _)
IdxOf(b, s, i) ==
    IF i > Len(b) THEN <<>>
    ELSE (IF b[i].kind = "userop" /\ b[i].sponsor = s THEN <<i>> ELSE <<>>)
         \o IdxOf(b, s, i + 1)

MsgsOf(b, s) == IdxOf(b, s, 1)

\* indices the first loop returns as invalid (type assertion, missing key)
RECURSIVE BadIdx(_, _)
BadIdx(b, i) ==
    IF i > Len(b) THEN <<>>
    ELSE (IF b[i].kind # "userop" THEN <<i>> ELSE <<>>) \o BadIdx(b, i + 1)

\* a message as the queue hands it to Process
Msg(k, s, b) == [kind |-> k, sponsor |-> s, bump |-> b, caller |-> "waiting"]

Message == {Msg("userop", s, b) : s \in Sponsors, b \in 0..MaxBump}
           \cup {Msg(k, NoSponsor, 0) : k \in {"badtype", "nokey"}}

Batches == UNION {[1..n -> Message] : n \in 1..MaxBatch}

(***************************************************************************)
(* Initial state.                                                          *)
(***************************************************************************)
BundlerInit ==
    /\ build \in Builds
    /\ chainNonce \in [Sponsors -> InitialNonces]
    /\ mempool = {}
    /\ inProgress = [s \in Sponsors |-> <<>>]
    /\ waiters = {}
    /\ txSeq = 0
    /\ called = FALSE
    /\ ppc = "idle"
    /\ batch = <<>>
    /\ todo = {}
    /\ cur = NoSponsor
    /\ nonce = 0
    /\ curTx = 0
    /\ respIdx = 0
    /\ invalid = <<>>
    /\ errors = <<>>
    /\ accepted = [s \in Sponsors |-> <<>>]
    /\ quiet = [s \in Sponsors |-> TRUE]
    /\ sentWaiting = {}
    /\ smu = {}

\* seconds of the timer in the copies of WaitForResponse
TimeoutSeconds == {12, 14}

\* what a producer passes to Respond: a transaction hash or an error
Responses == {"hash", "error"}

MsgInit ==
    /\ hasChan \in BOOLEAN
    /\ deadline \in TimeoutSeconds
    /\ chClosed = FALSE
    /\ respondPc = "idle"
    /\ responds = 0
    /\ copyNil = FALSE
    /\ recovered = FALSE
    /\ sending = "none"
    /\ waitPc = "notyet"
    /\ waitResult = "none"
    /\ elapsed = 0

QueueInit ==
    /\ queue = <<>>
    /\ qbatch = <<>>
    /\ qinvalid = <<>>
    /\ qpc = "idle"
    /\ processed = [i \in 1..MaxMsgs |-> 0]
    /\ errChan = {}
    /\ nextId = 0
    /\ qaccepted = {}

GroupsInit ==
    /\ modLog = <<>>
    /\ adminsEv = <<>>
    /\ membersEv = <<>>
    /\ inflight = {}
    /\ verdict = <<>>

SendInit ==
    /\ sendPc = [c \in 1..MaxCallers |-> "start"]
    /\ sendResult = [c \in 1..MaxCallers |-> "none"]
    /\ sendElapsed = [c \in 1..MaxCallers |-> 0]

IndexerInit ==
    /\ ctxDone = FALSE
    /\ nodeUp \in BOOLEAN
    /\ lpc = [e \in 1..MaxEvents |-> "notyet"]
    /\ resubs = 0
    /\ wpc = [e \in 1..MaxEvents |-> "notyet"]
    /\ werr = [e \in 1..MaxEvents |-> "none"]
    /\ startPc = "getevents"
    /\ startErr = "none"

RepostInit ==
    /\ dataDB = [h \in 1..MaxHashes |-> "none"]
    /\ described = [h \in 1..MaxHashes |-> "none"]
    /\ delivered = [h \in 1..MaxHashes |-> 0]
    /\ reposts = [h \in 1..MaxHashes |-> 0]
    /\ rwpc = "idle"
    /\ rwcur = 0

\* the parameters a query string is made of
Params ==
    { <<>>,
      <<"data.", "f", "=", "1">>,
      <<"data.", "f", "=", "2">>,
      <<"data.", "g", "=", "1">>,
      <<"data.", "f", "=", "1", ".", "0">>,
      <<"data.", "f", "=", "true">>,
      <<"data.", "f", "=", "<nil>">>,
      <<"data.", "f", "=", "null">>,
      <<"data.", "f", "=", "1", "=", "1">>,
      <<"f", "=", "1">>,
      <<"g", "=", "1">>,
      <<"data.", "f">>,
      <<"data.", "=", "1">>,
      <<"=">> }

\* a JSON value: its type and its literal
JVal(t, lit) == [t |-> t, lit |-> lit]

\* the data of a log: an object, or bytes json.Unmarshal rejects
LogData ==
    { [ok |-> TRUE, obj |-> (<<"f">> :> JVal("string", <<"1">>))],
      [ok |-> TRUE, obj |-> (<<"f">> :> JVal("number", <<"1">>))],
      [ok |-> TRUE, obj |-> (<<"f">> :> JVal("number", <<"1", ".", "0">>))],
      [ok |-> TRUE, obj |-> (<<"f">> :> JVal("string", <<"1", "=", "1">>))],
      [ok |-> TRUE, obj |-> (<<"f">> :> JVal("bool", <<"true">>))],
      [ok |-> TRUE, obj |-> (<<"f">> :> JVal("null", <<"null">>))],
      [ok |-> TRUE, obj |-> (<<"f">> :> JVal("string", <<"2">>)
                             @@ <<"g">> :> JVal("string", <<"1">>))],
      [ok |-> TRUE, obj |-> (<<"g">> :> JVal("string", <<"2">>))],
      [ok |-> FALSE, obj |-> (<<"f">> :> JVal("string", <<"1">>))] }

MatchInit ==
    /\ mqPairs \in UNION {[1..k -> Params] : k \in 0..MaxPairs}
    /\ mqData \in LogData
    /\ mqResult = <<>>

PoolIDs == {"c/t1", "c/t2"}

Subs == 1..MaxSubs

\* the raw queries of the subscribers' requests
SubQueries == {<<>>, <<"data.", "f", "=", "1">>, <<"data.", "f", "=", "2">>}

\* the logs broadcast: the pool topic of GetPoolTopic ("none" for nil) and
\* the data
WsLogs ==
    { [pool |-> p,
       data |-> [ok |-> TRUE, obj |-> (<<"f">> :> JVal("string", <<"1">>))]]
        : p \in PoolIDs \cup {"none"} }

WsInit ==
    /\ registry = [t \in PoolIDs |-> 0]
    /\ poolOpen = [p \in 1..MaxPools |-> FALSE]
    /\ poolConns = [p \in 1..MaxPools |-> {}]
    /\ nPools = 0
    /\ spc = [s \in Subs |-> "out"]
    /\ sQuery = [s \in Subs |-> <<>>]
    /\ sPool = [s \in Subs |-> 0]
    /\ mu = "free"
    /\ bpc = "idle"
    /\ bMsg = [pool |-> "none",
               data |-> [ok |-> TRUE,
                         obj |-> (<<"f">> :> JVal("string", <<"1">>))]]
    /\ bPool = 0
    /\ bQueries = {}
    /\ bGot = {}
    /\ renders = 0

\* the h tag of an auth event: a group, or "" without one
GroupIDs == {"", "A", "B"}

BlobInit ==
    /\ pendingUploads = [x \in 1..MaxHashes |-> "absent"]
    /\ upc = [u \in 1..MaxUploads |-> "new"]
    /\ usha = [u \in 1..MaxUploads |-> 1]
    /\ ugroup = [u \in 1..MaxUploads |-> ""]
    /\ ukey = [u \in 1..MaxUploads |-> <<>>]
    /\ s3 = {}

IdentityInit == identity = [i \in 1..MaxMsgs |-> <<>>]

AdmissionInit == admission = <<>>

\* the arguments of an event signature, each as the fields of its text
ArgForms ==
    { <<"address", "from">>,
      <<"address", "indexed", "from">>,
      <<"index_topic_1", "address", "to">>,
      <<"uint256", "value">>,
      <<"bytes32", "topic">>,
      <<"tuple", "indexed", "t">>,
      <<"address">>,
      <<"indexed", "uint256">>,
      <<"address", "payable", "x">>,
      <<>> }

TopicsInit ==
    /\ tsSig \in [name : {"", "Transfer"},
                  args : UNION {[1..k -> ArgForms] : k \in 0..MaxArgs}]
    /\ tsHashes \in 0..(MaxArgs + 1)
    /\ tsDataOk \in BOOLEAN
    /\ tsResult = <<>>

\* the fourth JSON parameter: left out, or a value of some JSON type
AmountParams ==
    {[t |-> "absent", n |-> 0], [t |-> "null", n |-> 0],
     [t |-> "bool", n |-> 0], [t |-> "text", n |-> 0]}
    \cup [t : {"number", "digits"}, n : 0..MaxAmount]

\* what the handler meets on its way: a failure point, or "none"
SponsorFailures == {"none", "entrypoint", "signature", "calldata", "key",
                    "nonce", "hash", "sign"}

SponsorInit ==
    /\ spAmount \in AmountParams
    /\ spRequest \in [fail : SponsorFailures, type : {"cw", "cw-safe"}]
    /\ spResult = <<>>

Init ==
    /\ BundlerInit /\ MsgInit /\ QueueInit /\ GroupsInit /\ SendInit
    /\ IndexerInit /\ RepostInit /\ MatchInit /\ WsInit /\ BlobInit
    /\ IdentityInit /\ TopicsInit /\ SponsorInit /\ AdmissionInit

\* the choices of a subsystem's initial state, fixed in the specifications
\* of the subsystems that never look at them
BundlerIdle == build = "nostr"

MsgIdle == hasChan /\ deadline \in {d \in TimeoutSeconds : d <= 12}

IndexerIdle == nodeUp

TopicsIdle ==
    /\ tsSig = [name |-> "", args |-> <<>>]
    /\ tsHashes = 0
    /\ tsDataOk = TRUE

SponsorIdle ==
    /\ spAmount = [t |-> "absent", n |-> 0]
    /\ spRequest = [fail |-> "none", type |-> "cw"]

MatchIdle ==
    /\ mqPairs = <<>>
    /\ mqData = [ok |-> TRUE, obj |-> (<<"g">> :> JVal("string", <<"2">>))]

\* the initial states of each subsystem's specification
BundlerStart ==
    MatchIdle /\ TopicsIdle /\ SponsorIdle /\ Init /\ MsgIdle /\ IndexerIdle

MsgStart ==
    MatchIdle /\ TopicsIdle /\ SponsorIdle /\ Init /\ BundlerIdle /\ IndexerIdle

QueueStart ==
    /\ MatchIdle /\ TopicsIdle /\ SponsorIdle
    /\ Init /\ BundlerIdle /\ MsgIdle /\ IndexerIdle

SendStart ==
    MatchIdle /\ TopicsIdle /\ SponsorIdle /\ Init /\ hasChan /\ IndexerIdle

GroupsStart ==
    /\ MatchIdle /\ TopicsIdle /\ SponsorIdle
    /\ Init /\ BundlerIdle /\ MsgIdle /\ IndexerIdle

IndexerStart ==
    MatchIdle /\ TopicsIdle /\ SponsorIdle /\ Init /\ BundlerIdle /\ MsgIdle

\* the initial states of the later subsystems' specifications
MoreStart ==
    /\ MatchIdle /\ TopicsIdle /\ SponsorIdle
    /\ Init /\ BundlerIdle /\ MsgIdle /\ IndexerIdle

MatchStart ==
    TopicsIdle /\ SponsorIdle /\ Init /\ BundlerIdle /\ MsgIdle /\ IndexerIdle

TopicsStart ==
    MatchIdle /\ SponsorIdle /\ Init /\ BundlerIdle /\ MsgIdle /\ IndexerIdle

SponsorStart ==
    MatchIdle /\ TopicsIdle /\ Init /\ BundlerIdle /\ MsgIdle /\ IndexerIdle

\* no log was taken yet
LogIdle ==
    /\ tsHashes = 0
    /\ tsDataOk = TRUE

\* the workers of events with any signature
DecodeStart ==
    /\ MatchIdle /\ LogIdle /\ SponsorIdle
    /\ Init /\ BundlerIdle /\ MsgIdle /\ IndexerIdle

(***************************************************************************)
(* UserOpService.Process, one step per call that touches shared state.     *)
(***************************************************************************)
ErrOfKind(k) == IF k = "badtype" THEN "invalid tx msgs" ELSE "db"

GroupSponsors(b) == {b[i].sponsor : i \in {j \in 1..Len(b) : b[j].kind = "userop"}}

\* the queue worker calls Process with a batch; the first loop sorts the
\* messages by sponsor and returns the unusable ones at once
StartProcess(b) ==
    /\ ppc = "idle"
    /\ batch' = b
    /\ invalid' = BadIdx(b, 1)
    /\ errors' = [i \in 1..Len(BadIdx(b, 1)) |-> ErrOfKind(b[BadIdx(b, 1)[i]].kind)]
    /\ todo' = GroupSponsors(b)
    /\ cur' = NoSponsor
    /\ ppc' = "pick"
    /\ sentWaiting' = {}
    /\ UNCHANGED <<notBundler, build, smu,
                   chainNonce, mempool, inProgress, waiters,
                   txSeq, nonce, curTx, respIdx, accepted, quiet>>

\* for sponsor, txms := range txmBySponsor (map order is arbitrary)
PickGroup ==
    /\ ppc = "pick"
    /\ todo # {}
    /\ \E s \in todo :
          /\ cur' = s
          /\ todo' = todo \ {s}
    /\ ppc' = "nonceAt"
    /\ UNCHANGED <<notBundler, build, smu,
                   called, chainNonce, mempool, inProgress, waiters,
                   txSeq, batch, nonce, curTx, respIdx, invalid, errors,
                   accepted, quiet, sentWaiting>>

\* return invalid, errors
ReturnProcess ==
    /\ ppc = "pick"
    /\ todo = {}
    /\ ppc' = "idle"
    /\ cur' = NoSponsor
    /\ batch' = <<>>
    /\ invalid' = <<>>
    /\ errors' = <<>>
    /\ nonce' = 0
    /\ curTx' = 0
    /\ respIdx' = 0
    /\ sentWaiting' = {}
    /\ UNCHANGED <<notBundler, build, smu,
                   called, chainNonce, mempool, inProgress, waiters,
                   txSeq, todo, accepted, quiet>>

\* the whole group is returned as invalid with n copies of the error
RejectGroup(e, n) ==
    /\ invalid' = invalid \o MsgsOf(batch, cur)
    /\ errors' = errors \o Repeat(e, n)
    /\ ppc' = "pick"
    /\ quiet' = [quiet EXCEPT ![cur] = FALSE]

\* second GetSponsor of the group fails: len(msgs) * len(msgs) errors
GroupKeyFails ==
    /\ ppc = "nonceAt"
    /\ RejectGroup("db", Len(MsgsOf(batch, cur)) * Len(MsgsOf(batch, cur)))
    /\ UNCHANGED <<notBundler, build, smu,
                   called, chainNonce, mempool, inProgress, waiters,
                   txSeq, batch, todo, cur, nonce, curTx, respIdx, accepted,
                   sentWaiting>>

\* nonce, err := s.evm.NonceAt(ctx, sponsor, nil); err != nil
NonceAtFails ==
    /\ ppc = "nonceAt"
    /\ RejectGroup("rpc", Len(MsgsOf(batch, cur)))
    /\ UNCHANGED <<notBundler, build, smu,
                   called, chainNonce, mempool, inProgress, waiters,
                   txSeq, batch, todo, cur, nonce, curTx, respIdx, accepted,
                   sentWaiting>>

\* nonce, err := s.evm.NonceAt(ctx, sponsor, nil); err == nil
NonceAt ==
    /\ ppc = "nonceAt"
    /\ nonce' = chainNonce[cur]
    /\ ppc' = "readInProgress"
    /\ UNCHANGED <<notBundler, build, smu,
                   called, chainNonce, mempool, inProgress, waiters,
                   txSeq, batch, todo, cur, curTx, respIdx, invalid, errors,
                   accepted, quiet, sentWaiting>>

\* a bundler that counts every in-progress hash twice
NonceCountingTwice(onchain, inprog) == onchain + 2 * Len(inprog)

\* the nonce Process uses, given the on-chain nonce and the in-progress list
NonceFor(onchain, inprog) == onchain + Len(inprog)

\* inProgress := s.inProgress[sponsor]; nonce += uint64(len(inProgress))
ReadInProgress ==
    /\ ppc = "readInProgress"
    /\ nonce' = NonceFor(nonce, inProgress[cur])
    /\ ppc' = "sign"
    /\ UNCHANGED <<notBundler, build, smu,
                   called, chainNonce, mempool, inProgress, waiters,
                   txSeq, batch, todo, cur, curTx, respIdx, invalid, errors,
                   accepted, quiet, sentWaiting>>

\* the same read while a tx-waiter is writing the map: the runtime may stop
\* the process (fatal error: concurrent map read and map write)
ReadDuringWrite ==
    /\ ppc = "readInProgress"
    /\ smu # {}
    /\ ppc' = "fatal"
    /\ UNCHANGED <<notBundler, build, smu, called, chainNonce,
                   mempool, inProgress, waiters, txSeq, batch, todo, cur,
                   nonce, curTx, respIdx, invalid, errors, accepted, quiet,
                   sentWaiting>>

\* GetAbi, Pack, NewTx or SignTx fails: nothing was appended yet
BuildTxFails ==
    /\ ppc = "sign"
    /\ RejectGroup("build", Len(MsgsOf(batch, cur)))
    /\ UNCHANGED <<notBundler, build, smu,
                   called, chainNonce, mempool, inProgress, waiters,
                   txSeq, batch, todo, cur, nonce, curTx, respIdx, accepted,
                   sentWaiting>>

\* sampleTxm := txms[0]: the first message of the sponsor's group
sampleTxm == batch[MsgsOf(batch, cur)[1]]

\* tx, err := s.evm.NewTx(nonce, sponsor, sampleTxm.EntryPoint, data,
\* sampleTxm.BumpGas): the extraGas the group's transaction is built with
extraGas == sampleTxm.bump

\* NewTx: the fee cap of the transaction in tenths of maxFeePerGas, a tenth
\* on top without extraGas and extraGas times the fee on top with it
GasFeeCap(gas) == IF gas > 0 THEN 10 + 10 * gas ELSE 11

\* s.inProgress[sponsor] = append(s.inProgress[sponsor], signedTxHash)
AppendInProgress(inprog, hash) == Append(inprog, hash)

\* the hash is appended, then edb.GetEvents fails: continue, hash stays
SignThenEventsFail ==
    /\ ppc = "sign"
    /\ smu = {}
    /\ txSeq' = txSeq + 1
    /\ curTx' = txSeq + 1
    /\ inProgress' = [inProgress EXCEPT ![cur] = AppendInProgress(@, txSeq + 1)]
    /\ RejectGroup("db", Len(MsgsOf(batch, cur)))
    /\ UNCHANGED <<notBundler, build, smu,
                   called, chainNonce, mempool, waiters, batch, todo,
                   cur, nonce, respIdx, accepted, sentWaiting>>

\* the transaction is built and signed and its hash appended to inProgress
Sign ==
    /\ ppc = "sign"
    /\ smu = {}
    /\ txSeq' = txSeq + 1
    /\ curTx' = txSeq + 1
    /\ inProgress' = [inProgress EXCEPT ![cur] = AppendInProgress(@, txSeq + 1)]
    /\ ppc' = "send"
    /\ UNCHANGED <<notBundler, build, smu,
                   called, chainNonce, mempool, waiters, batch, todo,
                   cur, nonce, respIdx, invalid, errors, accepted, quiet,
                   sentWaiting>>


\* the node takes a transaction whose nonce is not below the account's and
\* that does not compete with one it already holds for that nonce
NodeAccepts(s, n) ==
    /\ n >= chainNonce[s]
    /\ \A t \in mempool : ~(t.sponsor = s /\ t.nonce = n)

\* go func() { WaitForTx; remove from inProgress }()
SpawnWaiter(ws, s, hash) == ws \cup {[sponsor |-> s, tx |-> hash]}

\* err = s.evm.SendTransaction(signedTx); err == nil
SendOk ==
    /\ ppc = "send"
    /\ NodeAccepts(cur, nonce)
    /\ mempool' = mempool \cup {[sponsor |-> cur, nonce |-> nonce, tx |-> curTx]}
    /\ accepted' = [accepted EXCEPT ![cur] = Append(@, nonce)]
    /\ sentWaiting' = {i \in Range(MsgsOf(batch, cur)) : batch[i].caller = "waiting"}
    /\ IF build = "legacy"
       THEN /\ ppc' = "respond"
            /\ respIdx' = 1
            /\ waiters' = waiters
       ELSE /\ ppc' = "pick"
            /\ respIdx' = respIdx
            /\ waiters' = SpawnWaiter(waiters, cur, curTx)
    /\ UNCHANGED <<notBundler, build, smu,
                   called, chainNonce, inProgress, txSeq, batch, todo,
                   cur, nonce, curTx, invalid, errors, quiet>>

\* the bumpGas a message is re-enqueued with after a replacement request:
\* userop.go increments it; the event-based copy returns the message as is
Rebumped(b, m) == IF b = "legacy" THEN [m EXCEPT !.bump = @ + 1] ELSE m

\* rpc error code -32010: re-enqueue the batch, remove the hash. The
\* event-based copy first replaces each message's stored event and leaves
\* out of the invalid list the messages for which that fails; kept are the
\* messages for which it works
SendReplace(kept) ==
    /\ ppc = "send"
    /\ smu = {}
    /\ kept \subseteq Range(MsgsOf(batch, cur))
    /\ build = "legacy" => kept = Range(MsgsOf(batch, cur))
    /\ batch' = [i \in 1..Len(batch) |->
                   IF i \in Range(MsgsOf(batch, cur))
                   THEN Rebumped(build, batch[i]) ELSE batch[i]]
    /\ invalid' = invalid
                  \o SelectSeq(MsgsOf(batch, cur), LAMBDA i : i \in kept)
    /\ errors' = errors \o Repeat("replace", Len(MsgsOf(batch, cur)))
    /\ inProgress' = [inProgress EXCEPT ![cur] = FilterOut(@, curTx)]
    /\ quiet' = [quiet EXCEPT ![cur] = FALSE]
    /\ ppc' = "pick"
    /\ UNCHANGED <<notBundler, build, smu,
                   called, chainNonce, mempool, waiters, txSeq, todo,
                   cur, nonce, curTx, respIdx, accepted, sentWaiting>>

\* an rpc.Error with another code, with or without "insufficient funds":
\* every branch returns the batch as invalid and removes the hash
SendRejected(e) ==
    /\ ppc = "send"
    /\ smu = {}
    /\ RejectGroup(e, Len(MsgsOf(batch, cur)))
    /\ inProgress' = [inProgress EXCEPT ![cur] = FilterOut(@, curTx)]
    /\ UNCHANGED <<notBundler, build, smu,
                   called, chainNonce, mempool, waiters, txSeq, batch,
                   todo, cur, nonce, curTx, respIdx, accepted, sentWaiting>>

\* an error that is no rpc.Error: e is nil and e.Error() panics
SendPanics ==
    /\ ppc = "send"
    /\ ppc' = "panic"
    /\ quiet' = [quiet EXCEPT ![cur] = FALSE]
    /\ UNCHANGED <<notBundler, build, smu,
                   called, chainNonce, mempool, inProgress, waiters,
                   txSeq, batch, todo, cur, nonce, curTx, respIdx, invalid,
                   errors, accepted, sentWaiting>>

\* *m.Response <- MessageResponse{...}: the waiting caller takes the value;
\* on a closed channel the send panics and the panic is recovered
SendOnChannel(caller) == IF caller = "waiting" THEN "hash" ELSE caller

\* for _, msg := range msgs { msg.Respond(signedTxHash, nil) }
RespondNext ==
    /\ ppc = "respond"
    /\ respIdx <= Len(MsgsOf(batch, cur))
    /\ LET i == MsgsOf(batch, cur)[respIdx]
       IN batch' = [batch EXCEPT ![i].caller = SendOnChannel(@)]
    /\ respIdx' = respIdx + 1
    /\ UNCHANGED <<notBundler, build, smu,
                   called, chainNonce, mempool, inProgress, waiters,
                   txSeq, ppc, todo, cur, nonce, curTx, invalid, errors,
                   accepted, quiet, sentWaiting>>

\* the respond loop is over: spawn the tx-waiter, next sponsor
RespondDone ==
    /\ ppc = "respond"
    /\ respIdx > Len(MsgsOf(batch, cur))
    /\ waiters' = SpawnWaiter(waiters, cur, curTx)
    /\ ppc' = "pick"
    /\ UNCHANGED <<notBundler, build, smu,
                   called, chainNonce, mempool, inProgress, txSeq,
                   batch, todo, cur, nonce, curTx, respIdx, invalid, errors,
                   accepted, quiet, sentWaiting>>

\* WaitForResponse's timer fires: the caller returns and closes the channel
CallerTimeout(i) ==
    /\ ppc \notin {"idle", "panic", "fatal"}
    /\ i \in 1..Len(batch)
    /\ batch[i].caller = "waiting"
    /\ batch' = [batch EXCEPT ![i].caller = "closed"]
    /\ UNCHANGED <<notBundler, build, smu,
                   called, chainNonce, mempool, inProgress, waiters,
                   txSeq, ppc, todo, cur, nonce, curTx, respIdx, invalid,
                   errors, accepted, quiet, sentWaiting>>

\* the chain mines the sponsor's next transaction (with either status)
Mine(t) ==
    /\ t \in mempool
    /\ t.nonce = chainNonce[t.sponsor]
    /\ chainNonce' = [chainNonce EXCEPT ![t.sponsor] = @ + 1]
    /\ mempool' = mempool \ {t}
    /\ quiet' = [quiet EXCEPT ![t.sponsor] = FALSE]
    /\ UNCHANGED <<notBundler, build, smu,
                   called, inProgress, waiters, txSeq, ppc, batch, todo, cur,
                   nonce, curTx, respIdx, invalid, errors, accepted,
                   sentWaiting>>

\* WaitForTx returned (mined, failed or timed out): the waiter takes the
\* mutex. Holding it is a step of its own only where Process can tell the
\* difference, in front of its read of inProgress; everywhere else
\* WaiterDone locks, writes and unlocks at once
WaiterLock(w) ==
    /\ w \in waiters
    /\ smu = {}
    /\ ppc = "readInProgress"
    /\ smu' = {w}
    /\ UNCHANGED <<notBundler, build, called, chainNonce, mempool,
                   inProgress, waiters, txSeq, ppc, batch, todo, cur, nonce,
                   curTx, respIdx, invalid, errors, accepted, quiet,
                   sentWaiting>>

\* the waiter writes inProgress[sponsor] without the hash, unlocks and ends
WaiterDone(w) ==
    /\ w \in waiters
    /\ smu \subseteq {w}
    /\ smu' = {}
    /\ waiters' = waiters \ {w}
    /\ inProgress' = [inProgress EXCEPT ![w.sponsor] = FilterOut(@, w.tx)]
    /\ quiet' = [quiet EXCEPT ![w.sponsor] = FALSE]
    /\ UNCHANGED <<notBundler, build, called, chainNonce, mempool,
                   txSeq, ppc, batch, todo, cur, nonce, curTx, respIdx,
                   invalid, errors, accepted, sentWaiting>>

\* every step of a Process call in flight, of the chain and of the waiters
ProcessStep ==
    \/ PickGroup
    \/ ReturnProcess
    \/ GroupKeyFails
    \/ NonceAtFails
    \/ NonceAt
    \/ ReadInProgress
    \/ ReadDuringWrite
    \/ BuildTxFails
    \/ SignThenEventsFail
    \/ Sign
    \/ SendOk
    \/ \E kept \in SUBSET (1..MaxBatch) : SendReplace(kept)
    \/ \E e \in {"rpc", "insufficient funds"} : SendRejected(e)
    \/ SendPanics
    \/ RespondNext
    \/ RespondDone
    \/ \E t \in mempool : Mine(t)
    \/ \E w \in waiters : WaiterLock(w)
    \/ \E w \in waiters : WaiterDone(w)

\* SpecBundler: one Process call on an arbitrary batch, with the callers'
\* timers running
StartOnce ==
    /\ ~called
    /\ called' = TRUE
    /\ \E b \in Batches : StartProcess(b)

BundlerNext ==
    \/ StartOnce
    \/ ProcessStep
    \/ \E i \in 1..MaxBatch : CallerTimeout(i)

SpecBundler == BundlerStart /\ [][BundlerNext]_vars

\* SpecNonce: any number of Process calls with one plain user operation
\* each, until MaxTx transactions were signed
NonceBatches == {<<Msg("userop", s, 0)>> : s \in Sponsors}

StartSequenced ==
    /\ txSeq < MaxTx
    /\ called' = called
    /\ \E b \in NonceBatches : StartProcess(b)

NonceNext ==
    \/ StartSequenced
    \/ ProcessStep

SpecNonce == BundlerStart /\ [][NonceNext]_vars

(***************************************************************************)
(* The response channel of a queued message (pkg/relay/queue.go).          *)
(***************************************************************************)
\* a producer whose panic is not caught
Unrecovered(deferred) == "panicked"

\* where Respond ends after the send panicked: the deferred function
\* recovers and Respond returns normally
AfterPanic(deferred) == IF deferred THEN "idle" ELSE "panicked"

\* Respond(data, err): return at once on a nil Response, else block in the
\* send on the unbuffered channel
RespondCall(v) ==
    /\ respondPc = "idle"
    /\ responds < MaxResponds
    /\ responds' = responds + 1
    /\ IF ~hasChan \/ copyNil
       THEN /\ respondPc' = "idle"
            /\ sending' = sending
       ELSE /\ respondPc' = "sending"
            /\ sending' = v
    /\ UNCHANGED <<notMsg, hasChan, chClosed, copyNil, recovered, waitPc,
                   waitResult, elapsed, deadline>>

\* the send finds the channel closed (before or while it blocks): panic,
\* recover, me.Response = nil
SendOnClosed ==
    /\ respondPc = "sending"
    /\ chClosed
    /\ respondPc' = AfterPanic(TRUE)
    /\ copyNil' = TRUE
    /\ recovered' = TRUE
    /\ UNCHANGED <<notMsg, hasChan, chClosed, responds, sending, waitPc,
                   waitResult, elapsed, deadline>>

\* NewMessage(msg.ID, txm, msg.RetryCount, msg.Response) and the range
\* copies: another copy of the message still holds the channel
CopyMessage ==
    /\ respondPc = "idle"
    /\ copyNil
    /\ responds < MaxResponds
    /\ copyNil' = FALSE
    /\ UNCHANGED <<notMsg, hasChan, chClosed, respondPc, responds, recovered,
                   sending, waitPc, waitResult, elapsed, deadline>>

\* the caller enqueues the message and enters WaitForResponse
StartWait ==
    /\ waitPc = "notyet"
    /\ hasChan
    /\ waitPc' = "selecting"
    /\ elapsed' = 0
    /\ UNCHANGED <<notMsg, hasChan, chClosed, respondPc, responds, copyNil,
                   recovered, sending, waitResult, deadline>>

\* one second passes while the caller is in the select
Tick ==
    /\ waitPc = "selecting"
    /\ elapsed < deadline
    /\ elapsed' = elapsed + 1
    /\ UNCHANGED <<notMsg, hasChan, chClosed, respondPc, responds, copyNil,
                   recovered, sending, waitPc, waitResult, deadline>>

\* case resp, ok := <-*m.Response
Receive ==
    /\ waitPc = "selecting"
    /\ IF chClosed
       THEN /\ waitResult' = "response channel is closed"
            /\ respondPc' = respondPc
       ELSE /\ respondPc = "sending"
            /\ waitResult' = sending
            /\ respondPc' = "idle"
    /\ waitPc' = "closing"
    /\ UNCHANGED <<notMsg, hasChan, chClosed, responds, copyNil, recovered,
                   sending, elapsed, deadline>>

\* a select without a working timer
TimerNeverFires(e, d) == FALSE

\* time.After(time.Second * 12) has fired
TimerFired(e, d) == e >= d

\* case <-time.After(...): return nil, "request timeout"
Timeout ==
    /\ waitPc = "selecting"
    /\ TimerFired(elapsed, deadline)
    /\ waitResult' = "request timeout"
    /\ waitPc' = "closing"
    /\ UNCHANGED <<notMsg, hasChan, chClosed, respondPc, responds, copyNil,
                   recovered, sending, elapsed, deadline>>

\* defer m.Close(): close(*m.Response)
CloseChan ==
    /\ waitPc = "closing"
    /\ chClosed' = TRUE
    /\ waitPc' = "returned"
    /\ UNCHANGED <<notMsg, hasChan, respondPc, responds, copyNil, recovered,
                   sending, waitResult, elapsed, deadline>>

MsgNext ==
    \/ \E v \in Responses : RespondCall(v)
    \/ SendOnClosed
    \/ CopyMessage
    \/ StartWait
    \/ Tick
    \/ Receive
    \/ Timeout
    \/ CloseChan

SpecMsg == MsgStart /\ [][MsgNext]_vars

\* time passes, the runtime delivers the timer and runs the deferred Close
FairSpecMsg ==
    /\ MsgStart
    /\ [][MsgNext]_vars
    /\ WF_vars(Tick)
    /\ WF_vars(Timeout)
    /\ WF_vars(CloseChan)

(***************************************************************************)
(* The queue Service: enqueue, worker, retry.                              *)
(***************************************************************************)
QMsg(id, v, r) == [id |-> id, valid |-> v, retryCount |-> r]

QErr(id, e) == [id |-> id, err |-> e]

Min(a, b) == IF a < b THEN a ELSE b

\* occupancy n is at or above 90 % of the buffer
AlmostFull(n) == n * 10 >= Buffer * 9

\* an enqueue that appends whatever the occupancy
OfferUnbounded(q, m) == [queue |-> Append(q, m), errs |-> {}, ok |-> TRUE]

\* enqueue(Message): accepted if there is space (with a warning at 90 %),
\* dropped with "queue is full" otherwise
Offer(q, m) ==
    IF Len(q) >= Buffer
    THEN [queue |-> q, errs |-> {QErr(m.id, "queue is full")}, ok |-> FALSE]
    ELSE [queue |-> Append(q, m),
          errs |-> IF AlmostFull(Len(q) + 1)
                   THEN {QErr(m.id, "queue is almost full")} ELSE {},
          ok |-> TRUE]

\* a producer offers a new message
Enqueue(v) ==
    /\ nextId < MaxMsgs
    /\ nextId' = nextId + 1
    /\ LET r == Offer(queue, QMsg(nextId + 1, v, 0))
       IN /\ queue' = r.queue
          /\ errChan' = errChan \cup r.errs
          /\ qaccepted' = IF r.ok
                          THEN qaccepted \cup {[id |-> nextId + 1, valid |-> v]}
                          ELSE qaccepted
    /\ UNCHANGED <<notQueue, qbatch, qinvalid, qpc, processed>>

\* what stays in the queue when the worker took the first k messages
DrainRest(q, k) == SubSeq(q, k + 1, Len(q))

\* the worker drains up to K messages
Drain(k) ==
    /\ qpc = "idle"
    /\ k \in 1..Min(Len(queue), MaxBatch)
    /\ qbatch' = SubSeq(queue, 1, k)
    /\ queue' = DrainRest(queue, k)
    /\ qpc' = "process"
    /\ UNCHANGED <<notQueue, qinvalid, processed, errChan, nextId, qaccepted>>

\* a processor that returns every message as invalid
AllInvalid(b) == b

\* TestTxProcessor.Process: what is no UserOpMessage is returned as invalid
InvalidOf(b) == SelectSeq(b, LAMBDA m : ~m.valid)

\* processor.Process(batch): every message of the batch is counted
ProcessBatch ==
    /\ qpc = "process"
    /\ processed' = [i \in DOMAIN processed |->
                        processed[i]
                        + Cardinality({j \in 1..Len(qbatch) : qbatch[j].id = i})]
    /\ qinvalid' = InvalidOf(qbatch)
    /\ qbatch' = <<>>
    /\ qpc' = "requeue"
    /\ UNCHANGED <<notQueue, queue, errChan, nextId, qaccepted>>

\* a worker that grants one retry too many
RetryOnceMore(m) == m.retryCount <= RetryLimit

\* retryCount < R
MayRetry(m) == m.retryCount < RetryLimit

\* for each returned invalid message: re-enqueue with retryCount + 1, or
\* drop it and emit its error
Requeue ==
    /\ qpc = "requeue"
    /\ qinvalid # <<>>
    /\ LET m == Head(qinvalid)
           r == Offer(queue, QMsg(m.id, m.valid, m.retryCount + 1))
       IN IF MayRetry(m)
          THEN /\ queue' = r.queue
               /\ errChan' = errChan \cup r.errs
          ELSE /\ queue' = queue
               /\ errChan' = errChan \cup {QErr(m.id, "invalid tx message")}
    /\ qinvalid' = Tail(qinvalid)
    /\ UNCHANGED <<notQueue, qbatch, qpc, processed, nextId, qaccepted>>

\* every invalid message was handled: the worker drains again
FinishBatch ==
    /\ qpc = "requeue"
    /\ qinvalid = <<>>
    /\ qpc' = "idle"
    /\ UNCHANGED <<notQueue, queue, qbatch, qinvalid, processed, errChan,
                   nextId, qaccepted>>

QueueNext ==
    \/ \E v \in BOOLEAN : Enqueue(v)
    \/ \E k \in 1..MaxBatch : Drain(k)
    \/ ProcessBatch
    \/ Requeue
    \/ FinishBatch

SpecQueue == QueueStart /\ [][QueueNext]_vars

(***************************************************************************)
(* The identity of a queued user operation.                                *)
(***************************************************************************)
\* chain ids and event ids of the requests, as strings of characters
ChainIds == {<<"1">>, <<"1", "0">>}

EventIds == {<<"a">>, <<"b">>}

\* fmt.Sprintf("userop:%s%s", m.ChainId.String(), m.Event.ID)
ID(chainId, eventId) == <<"userop:">> \o chainId \o eventId

\* message := relay.NewTxMessage(chainId, event, extraData);
\* s.useropq.Enqueue(*message); v tells whether Process will take it
EnqueueTx(chainId, eventId, v) ==
    /\ nextId < MaxMsgs
    /\ nextId' = nextId + 1
    /\ identity' = [identity EXCEPT ![nextId + 1] = ID(chainId, eventId)]
    /\ LET r == Offer(queue, QMsg(nextId + 1, v, 0))
       IN /\ queue' = r.queue
          /\ errChan' = errChan \cup r.errs
          /\ qaccepted' = IF r.ok
                          THEN qaccepted
                               \cup {[id |-> nextId + 1, valid |-> v]}
                          ELSE qaccepted
    /\ UNCHANGED <<notEnqueue, qbatch, qinvalid, qpc, processed>>

IdentityNext ==
    \/ \E c \in ChainIds, e \in EventIds, v \in BOOLEAN : EnqueueTx(c, e, v)
    \/ \E k \in 1..MaxBatch : Drain(k)
    \/ ProcessBatch
    \/ Requeue
    \/ FinishBatch

SpecIdentity == QueueStart /\ [][IdentityNext]_vars

(***************************************************************************)
(* Decoding a raw log into Topics and validating the object form           *)
(* (pkg/relay/topic.go, pkg/relay/legacylog.go).                           *)
(***************************************************************************)
\* ParseEventSignature, one argument: the fields left after index_topic_N
\* and indexed are taken out, and whether the argument is indexed
ArgFields(f) ==
    LET a == IF Len(f) > 0 /\ f[1] = "index_topic_1" THEN Tail(f) ELSE f
    IN IF Len(a) >= 2 /\ a[1] = "indexed" THEN Tail(a)
       ELSE IF Len(a) >= 2 /\ a[2] = "indexed"
            THEN <<a[1]>> \o SubSeq(a, 3, Len(a))
            ELSE a

ArgIndexed(f) ==
    \/ Len(f) > 0 /\ f[1] = "index_topic_1"
    \/ LET a == IF Len(f) > 0 /\ f[1] = "index_topic_1" THEN Tail(f) ELSE f
       IN Len(a) >= 2 /\ (a[1] = "indexed" \/ a[2] = "indexed")

\* ParseEventSignature: the named and unnamed arguments in order, an
\* unnamed one called by its position in the text
RECURSIVE ParseArgs(_, _)
ParseArgs(args, i) ==
    IF i > Len(args) THEN <<>>
    ELSE LET a == ArgFields(args[i]) IN
         (IF Len(a) = 2
          THEN <<[name |-> a[2], type |-> a[1],
                  indexed |-> ArgIndexed(args[i])]>>
          ELSE IF Len(a) = 1
               THEN <<[name |-> ToString(i - 1), type |-> a[1],
                       indexed |-> ArgIndexed(args[i])]>>
               ELSE <<>>)
         \o ParseArgs(args, i + 1)

ParseEventSignature(sig) ==
    IF sig.name = "" THEN <<>> ELSE ParseArgs(sig.args, 1)

\* convertHashToValue knows the type
Convertible(type) == type \in {"address", "uint256", "bool", "bytes32"}

\* number of indexed arguments among the first n
IndexedBefore(parsed, n) ==
    Cardinality({i \in 1..n : parsed[i].indexed})

\* ParseTopicsFromHashes: "error", "panic" (a topic hash that is not
\* there), or the topics
ParseTopicsFromHashes(sig, hashes, dataOk) ==
    LET parsed == ParseEventSignature(sig) IN
    IF hashes = 0 \/ parsed = <<>> \/ ~dataOk
    THEN [status |-> "error", topics |-> <<>>]
    ELSE IF \E i \in 1..Len(parsed) :
                /\ parsed[i].indexed
                /\ \A j \in 1..(i - 1) :
                       parsed[j].indexed =>
                           (Convertible(parsed[j].type)
                            /\ IndexedBefore(parsed, j) < hashes)
                /\ IndexedBefore(parsed, i) >= hashes
         THEN [status |-> "panic", topics |-> <<>>]
         ELSE IF \E i \in 1..Len(parsed) :
                     parsed[i].indexed /\ ~Convertible(parsed[i].type)
              THEN [status |-> "error", topics |-> <<>>]
              ELSE [status |-> "ok",
                    topics |-> <<"topic">>
                               \o [i \in 1..Len(parsed) |-> parsed[i].name]]

\* Topics.MarshalJSON: the keys of the object, one per distinct name
MarshalJSON(topics) == {topics[i] : i \in {j \in 1..Len(topics) : topics[j] # ""}}

\* Event.IsValidData(data), on the keys of data
IsValidData(sig, keys) ==
    LET parsed == ParseEventSignature(sig) IN
    /\ Cardinality(keys) = Len(parsed) + 1
    /\ "topic" \in keys
    /\ \A i \in 1..Len(parsed) : parsed[i].name \in keys

DecodeAndValidate ==
    /\ tsResult = <<>>
    /\ LET r == ParseTopicsFromHashes(tsSig, tsHashes, tsDataOk)
       IN tsResult' = <<[status |-> r.status,
                         topics |-> r.topics,
                         valid |-> IsValidData(tsSig, MarshalJSON(r.topics))]>>
    /\ UNCHANGED <<notTopics, tsSig, tsHashes, tsDataOk>>

TopicsNext == DecodeAndValidate

SpecTopics == TopicsStart /\ [][TopicsNext]_vars

(***************************************************************************)
(* pm_ooSponsorUserOperation (internal/paymaster/handlers.go).             *)
(***************************************************************************)
\* the loop over params: amount starts at zero and is set by the fourth
\* parameter only, to its number, to the number a string spells, or to the
\* default for anything else
ParsedAmount(param) ==
    CASE param.t = "absent" -> 0
      [] param.t = "number" -> param.n
      [] param.t = "digits" -> param.n
      [] OTHER -> DefaultAmount

\* the failures that end the handler before the loop over the amount
BeforeLoop == {"entrypoint", "signature", "calldata", "key"}

\* Service.OOSponsor: an error, or the list of signed user operations
OOSponsor ==
    /\ spResult = <<>>
    /\ spResult' =
         IF spRequest.fail \in BeforeLoop
         THEN <<[err |-> spRequest.fail, ops |-> 0]>>
         ELSE IF spRequest.fail # "none" /\ ParsedAmount(spAmount) > 0
              THEN <<[err |-> spRequest.fail, ops |-> 0]>>
              ELSE <<[err |-> "none", ops |-> ParsedAmount(spAmount)]>>
    /\ UNCHANGED <<notSponsor, spAmount, spRequest>>

SponsorNext == OOSponsor

SpecSponsor == SponsorStart /\ [][SponsorNext]_vars

(***************************************************************************)
(* eth_sendUserOperation: Service.Send enqueues the message and waits for  *)
(* its response; the worker hands the queued messages to the bundler.      *)
(***************************************************************************)
\* message := relay.NewTxMessage(...); s.useropq.Enqueue(*message);
\* message.WaitForResponse(): Enqueue returns nothing, the caller enters
\* the select whatever became of the message
SendEnqueue(c) ==
    /\ sendPc[c] = "start"
    /\ LET r == Offer(queue, QMsg(c, TRUE, 0))
       IN /\ queue' = r.queue
          /\ errChan' = errChan \cup r.errs
    /\ sendPc' = [sendPc EXCEPT ![c] = "selecting"]
    /\ sendElapsed' = [sendElapsed EXCEPT ![c] = 0]
    /\ UNCHANGED <<notSend, sendResult>>

\* one second passes for a caller in the select
SendTick(c) ==
    /\ sendPc[c] = "selecting"
    /\ sendElapsed[c] < deadline
    /\ sendElapsed' = [sendElapsed EXCEPT ![c] = @ + 1]
    /\ UNCHANGED <<notSend, queue, errChan, sendPc, sendResult>>

\* the worker takes the next message and the bundler submits it; the legacy
\* bundler responds with the transaction hash, which reaches a caller that
\* is still in the select
SendServe ==
    /\ queue # <<>>
    /\ queue' = Tail(queue)
    /\ LET c == Head(queue).id
       IN IF build = "legacy" /\ sendPc[c] = "selecting"
          THEN /\ sendPc' = [sendPc EXCEPT ![c] = "returned"]
               /\ sendResult' = [sendResult EXCEPT ![c] = "hash"]
          ELSE UNCHANGED <<sendPc, sendResult>>
    /\ UNCHANGED <<notSend, errChan, sendElapsed>>

\* case <-time.After(...): Send returns the error "request timeout"
SendTimeout(c) ==
    /\ sendPc[c] = "selecting"
    /\ TimerFired(sendElapsed[c], deadline)
    /\ sendPc' = [sendPc EXCEPT ![c] = "returned"]
    /\ sendResult' = [sendResult EXCEPT ![c] = "request timeout"]
    /\ UNCHANGED <<notSend, queue, errChan, sendElapsed>>

SendNext ==
    \/ \E c \in 1..MaxCallers : SendEnqueue(c)
    \/ \E c \in 1..MaxCallers : SendTick(c)
    \/ SendServe
    \/ \E c \in 1..MaxCallers : SendTimeout(c)

SpecSend == SendStart /\ [][SendNext]_vars

(***************************************************************************)
(* The indexer: Indexer.Start, one ListenToLogs worker per registered      *)
(* event, and the ListenForLogs loop feeding each worker.                  *)
(***************************************************************************)
\* the context is cancelled
Cancel ==
    /\ ~ctxDone
    /\ ctxDone' = TRUE
    /\ UNCHANGED <<notIndexer, nodeUp, lpc, resubs, wpc, werr, startPc,
                   startErr>>

\* the connection to the node drops or comes back
NodeToggle ==
    /\ nodeUp' = ~nodeUp
    /\ UNCHANGED <<notIndexer, ctxDone, lpc, resubs, wpc, werr, startPc,
                   startErr>>

\* Start: evs, err := i.db.EventDB.GetEvents(); one goroutine per event
StartGetEvents(ok) ==
    /\ startPc = "getevents"
    /\ IF ok
       THEN /\ startPc' = "waiting"
            /\ startErr' = startErr
            /\ wpc' = [e \in 1..MaxEvents |-> "filter"]
       ELSE /\ startPc' = "returned"
            /\ startErr' = "db error"
            /\ wpc' = wpc
    /\ UNCHANGED <<notIndexer, ctxDone, nodeUp, lpc, resubs, werr>>

\* ListenToLogs: FilterQueryFromEvent (LatestBlock), then the goroutine
\* running ListenForLogs
FilterQueryFromEvent(e) ==
    /\ wpc[e] = "filter"
    /\ IF nodeUp
       THEN /\ wpc' = [wpc EXCEPT ![e] = "recv"]
            /\ lpc' = [lpc EXCEPT ![e] = "subscribe"]
            /\ werr' = werr
       ELSE /\ wpc' = [wpc EXCEPT ![e] = "sendquit"]
            /\ werr' = [werr EXCEPT ![e] = "rpc error"]
            /\ lpc' = lpc
    /\ UNCHANGED <<notIndexer, ctxDone, nodeUp, resubs, startPc,
                   startErr>>

\* sub, err := e.client.SubscribeFilterLogs(ctx, q, ch): fails while the
\* transport is down; with a cancelled context it may fail as well
SubscribeFilterLogs(e, ok) ==
    /\ lpc[e] = "subscribe"
    /\ ok => nodeUp
    /\ ~ok => ~nodeUp \/ ctxDone
    /\ lpc' = [lpc EXCEPT ![e] = IF ok THEN "select" ELSE "backoff"]
    /\ resubs' = IF ok THEN resubs ELSE Min(resubs + 1, MaxResubs)
    /\ UNCHANGED <<notIndexer, ctxDone, nodeUp, wpc, werr, startPc,
                   startErr>>

\* a loop that returns on a subscription error
GiveUp(done) == "sendquit"

\* case err := <-sub.Err(): unsubscribe, wait, continue
OnSubErr(done) == "backoff"

\* the subscription reports an error
SubErr(e) ==
    /\ lpc[e] = "select"
    /\ ~nodeUp
    /\ lpc' = [lpc EXCEPT ![e] = OnSubErr(ctxDone)]
    /\ resubs' = Min(resubs + 1, MaxResubs)
    /\ UNCHANGED <<notIndexer, ctxDone, nodeUp, wpc, werr, startPc,
                   startErr>>

\* <-time.After(1 * time.Second); continue
Backoff(e) ==
    /\ lpc[e] = "backoff"
    /\ lpc' = [lpc EXCEPT ![e] = "subscribe"]
    /\ UNCHANGED <<notIndexer, ctxDone, nodeUp, resubs, wpc, werr,
                   startPc, startErr>>

\* case <-ctx.Done(): unsubscribe, return ctx.Err(); the goroutine of
\* ListenToLogs then sends the error on quitAck
CtxDoneCase(e) ==
    /\ lpc[e] = "select"
    /\ ctxDone
    /\ lpc' = [lpc EXCEPT ![e] = "sendquit"]
    /\ UNCHANGED <<notIndexer, ctxDone, nodeUp, resubs, wpc, werr,
                   startPc, startErr>>

\* for log := range logch, up to the signed event: BlockTime may fail, a
\* log whose topics do not parse is skipped
NextLog(e, outcome) ==
    /\ wpc[e] = "recv"
    /\ lpc[e] = "select"
    /\ nodeUp
    /\ wpc' = [wpc EXCEPT ![e] = CASE outcome = "ok" -> "save"
                                    [] outcome = "skip" -> "recv"
                                    [] OTHER -> "sendquit"]
    /\ werr' = [werr EXCEPT ![e] = IF outcome = "rpc error"
                                   THEN "rpc error" ELSE @]
    /\ UNCHANGED <<notIndexer, ctxDone, nodeUp, lpc, resubs, startPc,
                   startErr>>

\* a worker that goes on after a failed save
Swallowed(err) == "none"

\* err = i.ndb.SaveEvent(i.ctx, ev); if err != nil { return err }
Returned(err) == err

\* the worker saves the signed event
SaveEvent(e, err) ==
    /\ wpc[e] = "save"
    /\ wpc' = [wpc EXCEPT ![e] = IF Returned(err) = "none"
                                  THEN "recv" ELSE "sendquit"]
    /\ werr' = [werr EXCEPT ![e] = err]
    /\ UNCHANGED <<notIndexer, ctxDone, nodeUp, lpc, resubs, startPc,
                   startErr>>

\* quitAck <- err in a worker's goroutine, received by return <-quitAck
WorkerQuit(e) ==
    /\ wpc[e] = "sendquit"
    /\ startPc = "waiting"
    /\ startPc' = "returned"
    /\ startErr' = werr[e]
    /\ wpc' = [wpc EXCEPT ![e] = "stopped"]
    /\ UNCHANGED <<notIndexer, ctxDone, nodeUp, lpc, resubs, werr>>

\* quitAck <- err in a listener's goroutine, received by return <-quitAck
ListenerQuit(e) ==
    /\ lpc[e] = "sendquit"
    /\ startPc = "waiting"
    /\ startPc' = "returned"
    /\ startErr' = "context canceled"
    /\ lpc' = [lpc EXCEPT ![e] = "done"]
    /\ UNCHANGED <<notIndexer, ctxDone, nodeUp, resubs, wpc, werr>>

ListenerStep(e) ==
    \/ \E ok \in BOOLEAN : SubscribeFilterLogs(e, ok)
    \/ SubErr(e)
    \/ Backoff(e)
    \/ CtxDoneCase(e)

IndexerNext ==
    \/ Cancel
    \/ NodeToggle
    \/ \E ok \in BOOLEAN : StartGetEvents(ok)
    \/ \E e \in 1..MaxEvents : FilterQueryFromEvent(e)
    \/ \E e \in 1..MaxEvents : ListenerStep(e)
    \/ \E e \in 1..MaxEvents, o \in {"ok", "skip", "rpc error"} : NextLog(e, o)
    \/ \E e \in 1..MaxEvents, err \in {"none", "store error"} : SaveEvent(e, err)
    \/ \E e \in 1..MaxEvents : WorkerQuit(e)
    \/ \E e \in 1..MaxEvents : ListenerQuit(e)

SpecIndexer == IndexerStart /\ [][IndexerNext]_vars

\* every goroutine that can take a step eventually takes one
FairSpecIndexer ==
    /\ IndexerStart
    /\ [][IndexerNext]_vars
    /\ \A e \in 1..MaxEvents : WF_vars(ListenerStep(e))
    /\ \A e \in 1..MaxEvents : WF_vars(WorkerQuit(e))
    /\ \A e \in 1..MaxEvents : WF_vars(ListenerQuit(e))

(***************************************************************************)
(* The worker's loop body with the decoding of the log's topics.           *)
(***************************************************************************)
\* where the worker is after ParseTopicsFromHashes: an error is printed
\* and the log skipped; a panic is recovered nowhere in the goroutine
AfterParse(status) ==
    CASE status = "ok" -> "save"
      [] status = "error" -> "recv"
      [] OTHER -> "panicked"

\* for log := range logch: BlockTime, ParseTopicsFromHashes(ev, log.Topics,
\* log.Data), then the signed event; a panic in the worker's goroutine ends
\* the process and every worker with it
DecodeLog(e, hashes, dataOk, blockTimeOk) ==
    /\ wpc[e] = "recv"
    /\ lpc[e] = "select"
    /\ nodeUp
    /\ tsHashes' = hashes
    /\ tsDataOk' = dataOk
    /\ LET r == ParseTopicsFromHashes(tsSig, hashes, dataOk) IN
       IF ~blockTimeOk
       THEN /\ wpc' = [wpc EXCEPT ![e] = "sendquit"]
            /\ werr' = [werr EXCEPT ![e] = "rpc error"]
       ELSE /\ wpc' = IF AfterParse(r.status) = "panicked"
                      THEN [x \in 1..MaxEvents |-> "panicked"]
                      ELSE [wpc EXCEPT ![e] = AfterParse(r.status)]
            /\ werr' = werr
    /\ UNCHANGED <<notDecode, tsSig, tsResult, ctxDone, nodeUp, lpc, resubs,
                   startPc, startErr>>

DecodeNext ==
    \/ StartGetEvents(TRUE)
    \/ \E e \in 1..MaxEvents : FilterQueryFromEvent(e)
    \/ \E e \in 1..MaxEvents : SubscribeFilterLogs(e, TRUE)
    \/ \E e \in 1..MaxEvents, h \in 0..(MaxArgs + 1), ok \in BOOLEAN,
          bt \in BOOLEAN : DecodeLog(e, h, ok, bt)
    \/ \E e \in 1..MaxEvents : SaveEvent(e, "none")
    \/ \E e \in 1..MaxEvents : WorkerQuit(e)

SpecDecode == DecodeStart /\ [][DecodeNext]_vars

(***************************************************************************)
(* Pending extraData descriptions: the bundler attaches a description to   *)
(* the hash of the log it expects, the indexer worker turns it into a      *)
(* quote-repost when the log arrives.                                      *)
(***************************************************************************)
\* what a row of t_logs_data may hold: a description, or extra data whose
\* description is empty
Descriptions == {"text", "empty"}

\* s.db.DataDB.UpsertData(log.Hash, txdata), before the transaction is sent
UpsertData(h, d) ==
    /\ delivered[h] = 0
    /\ described[h] = "none"
    /\ dataDB' = [dataDB EXCEPT ![h] = d]
    /\ described' = [described EXCEPT ![h] = d]
    /\ UNCHANGED <<notRepost, delivered, reposts, rwpc, rwcur>>

\* a log with hash h reaches the worker, which signs and saves its event
SaveLogEvent(h, ok) ==
    /\ rwpc = "idle"
    /\ delivered[h] < MaxDeliveries
    /\ delivered' = [delivered EXCEPT ![h] = @ + 1]
    /\ rwpc' = IF ok THEN "getdata" ELSE "stopped"
    /\ rwcur' = h
    /\ UNCHANGED <<notRepost, dataDB, described, reposts>>

\* txData, err := i.db.DataDB.GetData(l.Hash); the repost is built only
\* for a description that is not empty
GetData(ok) ==
    /\ rwpc = "getdata"
    /\ rwpc' = CASE ~ok -> "stopped"
                 [] dataDB[rwcur] = "none" -> "idle"
                 [] dataDB[rwcur] = "text" -> "repost"
                 [] OTHER -> "delete"
    /\ UNCHANGED <<notRepost, dataDB, described, delivered, reposts, rwcur>>

\* rev, err = i.n.SignAndSaveEvent(i.ctx, rev)
SaveRepost(ok) ==
    /\ rwpc = "repost"
    /\ reposts' = IF ok THEN [reposts EXCEPT ![rwcur] = @ + 1] ELSE reposts
    /\ rwpc' = IF ok THEN "delete" ELSE "stopped"
    /\ UNCHANGED <<notRepost, dataDB, described, delivered, rwcur>>

\* a worker that leaves the row in place
Kept(row) == row

\* DELETE FROM t_logs_data WHERE hash = $1
Deleted(row) == "none"

\* err = i.db.DataDB.DeleteData(l.Hash)
DeleteData(ok) ==
    /\ rwpc = "delete"
    /\ dataDB' = IF ok THEN [dataDB EXCEPT ![rwcur] = Deleted(@)] ELSE dataDB
    /\ rwpc' = IF ok THEN "idle" ELSE "stopped"
    /\ UNCHANGED <<notRepost, described, delivered, reposts, rwcur>>

RepostNext ==
    \/ \E h \in 1..MaxHashes, d \in Descriptions : UpsertData(h, d)
    \/ \E h \in 1..MaxHashes, ok \in BOOLEAN : SaveLogEvent(h, ok)
    \/ \E ok \in BOOLEAN : GetData(ok)
    \/ \E ok \in BOOLEAN : SaveRepost(ok)
    \/ \E ok \in BOOLEAN : DeleteData(ok)

SpecRepost == MoreStart /\ [][RepostNext]_vars

(***************************************************************************)
(* Log.MatchesQuery (pkg/relay/ws.go). A string is a sequence of tokens;   *)
(* "data." is one token.                                                   *)
(***************************************************************************)
\* strings.Join(ps, "&")
RECURSIVE Join(_)
Join(ps) ==
    IF ps = <<>> THEN <<>>
    ELSE IF Len(ps) = 1 THEN ps[1]
    ELSE ps[1] \o <<"&">> \o Join(Tail(ps))

\* position of the first sep in s, 0 if there is none
IndexOf(s, sep) ==
    IF \A i \in 1..Len(s) : s[i] # sep THEN 0
    ELSE CHOOSE i \in 1..Len(s) :
             s[i] = sep /\ \A j \in 1..(i - 1) : s[j] # sep

\* strings.Split(s, sep)
RECURSIVE Split(_, _)
Split(s, sep) ==
    IF IndexOf(s, sep) = 0 THEN <<s>>
    ELSE <<SubSeq(s, 1, IndexOf(s, sep) - 1)>>
         \o Split(SubSeq(s, IndexOf(s, sep) + 1, Len(s)), sep)

\* strings.SplitN(s, sep, 2)
SplitN2(s, sep) ==
    IF IndexOf(s, sep) = 0 THEN <<s>>
    ELSE <<SubSeq(s, 1, IndexOf(s, sep) - 1),
           SubSeq(s, IndexOf(s, sep) + 1, Len(s))>>

\* a comparison that takes every key for a data key
AnyPrefix(key) == TRUE

\* strings.HasPrefix(key, "data.")
HasPrefix(key) == Len(key) > 0 /\ key[1] = "data."

\* strings.TrimPrefix(key, "data.")
TrimPrefix(key) ==
    IF Len(key) > 0 /\ key[1] = "data." THEN Tail(key) ELSE key

\* fmt.Sprintf("%v", dataValue) of an unmarshalled JSON value: a number is a
\* float64 and prints in its shortest form, nil prints as <nil>
Sprintf(v) ==
    CASE v.t = "number" ->
             IF Len(v.lit) > 2 /\ SubSeq(v.lit, Len(v.lit) - 1, Len(v.lit))
                                    = <<".", "0">>
             THEN SubSeq(v.lit, 1, Len(v.lit) - 2)
             ELSE v.lit
      [] v.t = "null" -> <<"<nil>">>
      [] OTHER -> v.lit

\* the loop over the parameters of the query
RECURSIVE MatchParams(_, _)
MatchParams(data, params) ==
    IF params = <<>> THEN FALSE
    ELSE LET kv == SplitN2(Head(params), "=") IN
         IF Len(kv) # 2 THEN MatchParams(data, Tail(params))
         ELSE IF /\ HasPrefix(kv[1])
                 /\ TrimPrefix(kv[1]) \in DOMAIN data
                 /\ Sprintf(data[TrimPrefix(kv[1])]) = kv[2]
              THEN TRUE
              ELSE MatchParams(data, Tail(params))

\* func (l *Log) MatchesQuery(query string) bool
MatchesQuery(l, query) ==
    IF query = <<>> THEN TRUE
    ELSE IF ~l.ok THEN FALSE
    ELSE MatchParams(l.obj, Split(query, "&"))

ApplyMatchesQuery ==
    /\ mqResult = <<>>
    /\ mqResult' = <<MatchesQuery(mqData, Join(mqPairs))>>
    /\ UNCHANGED <<notMatch, mqPairs, mqData>>

MatchNext == ApplyMatchesQuery

SpecMatch == MatchStart /\ [][MatchNext]_vars

(***************************************************************************)
(* The WebSocket pools (internal/ws/pools.go). The registry's mutex is     *)
(* held from the lookup to the registration; a pool closes itself when its *)
(* last connection goes, without the registry's mutex.                     *)
(***************************************************************************)
\* whether Connect has to make a pool for the topic
NeedsPool(topic) == registry[topic] = 0 \/ ~poolOpen[registry[topic]]

\* Connect up to the call of pool.Connect: the mutex, the lookup, and a new
\* pool when the topic has none or a closed one
ConnectLookup(s, topic, q) ==
    /\ spc[s] = "out"
    /\ mu = "free"
    /\ NeedsPool(topic) => nPools < MaxPools
    /\ mu' = "connect"
    /\ spc' = [spc EXCEPT ![s] = "lookedup"]
    /\ sQuery' = [sQuery EXCEPT ![s] = q]
    /\ IF NeedsPool(topic)
       THEN /\ nPools' = nPools + 1
            /\ registry' = [registry EXCEPT ![topic] = nPools + 1]
            /\ poolOpen' = [poolOpen EXCEPT ![nPools + 1] = TRUE]
            /\ sPool' = [sPool EXCEPT ![s] = nPools + 1]
       ELSE /\ sPool' = [sPool EXCEPT ![s] = registry[topic]]
            /\ UNCHANGED <<nPools, registry, poolOpen>>
    /\ UNCHANGED <<notWs, poolConns, bpc, bMsg, bPool, bQueries, bGot,
                   renders>>

\* p.pools[topic].Connect(w, r), and the deferred Unlock
PoolConnect(s) ==
    /\ spc[s] = "lookedup"
    /\ poolConns' = [poolConns EXCEPT ![sPool[s]] = @ \cup {s}]
    /\ spc' = [spc EXCEPT ![s] = "in"]
    /\ mu' = "free"
    /\ UNCHANGED <<notWs, registry, poolOpen, nPools, sQuery, sPool, bpc,
                   bMsg, bPool, bQueries, bGot, renders>>

\* a connection goes; the pool that loses its last connection closes
Disconnect(s) ==
    /\ spc[s] = "in"
    /\ poolConns' = [poolConns EXCEPT ![sPool[s]] = @ \ {s}]
    /\ poolOpen' = [poolOpen EXCEPT
                      ![sPool[s]] = @ /\ poolConns[sPool[s]] # {s}]
    /\ spc' = [spc EXCEPT ![s] = "gone"]
    /\ UNCHANGED <<notWs, registry, nPools, sQuery, sPool, mu, bpc, bMsg,
                   bPool, bQueries, bGot, renders>>

\* pool.Queries(): the distinct queries of the pool's connections
Queries(p) == {sQuery[s] : s \in poolConns[p]}

\* BroadcastMessage up to the loop: ToWSMessage, json.Marshal, the mutex,
\* the lookup of the pool and its queries
BroadcastLookup(m) ==
    /\ bpc = "idle"
    /\ mu = "free"
    /\ bMsg' = m
    /\ bGot' = {}
    /\ IF m.pool = "none"
       THEN /\ bpc' = "returned"
            /\ UNCHANGED <<renders, mu, bPool, bQueries>>
       ELSE /\ renders' = renders + 1
            /\ IF registry[m.pool] # 0 /\ poolOpen[registry[m.pool]]
               THEN /\ bpc' = "loop"
                    /\ mu' = "broadcast"
                    /\ bPool' = registry[m.pool]
                    /\ bQueries' = Queries(registry[m.pool])
               ELSE /\ bpc' = "returned"
                    /\ UNCHANGED <<mu, bPool, bQueries>>
    /\ UNCHANGED <<notWs, registry, poolOpen, poolConns, nPools, spc, sQuery,
                   sPool>>

\* one round of the loop: pool.BroadcastMessage(query, b) for a query that
\* matches writes the bytes to the pool's connections holding the query
BroadcastQuery(q) ==
    /\ bpc = "loop"
    /\ q \in bQueries
    /\ bQueries' = bQueries \ {q}
    /\ bGot' = IF MatchesQuery(bMsg.data, q)
               THEN bGot \cup {s \in poolConns[bPool] : sQuery[s] = q}
               ELSE bGot
    /\ UNCHANGED <<notWs, registry, poolOpen, poolConns, nPools, spc, sQuery,
                   sPool, mu, bpc, bMsg, bPool, renders>>

\* the loop is over: the deferred Unlock
BroadcastReturn ==
    /\ bpc = "loop"
    /\ bQueries = {}
    /\ bpc' = "returned"
    /\ mu' = "free"
    /\ UNCHANGED <<notWs, registry, poolOpen, poolConns, nPools, spc, sQuery,
                   sPool, bMsg, bPool, bQueries, bGot, renders>>

WsNext ==
    \/ \E s \in Subs, t \in PoolIDs, q \in SubQueries : ConnectLookup(s, t, q)
    \/ \E s \in Subs : PoolConnect(s)
    \/ \E s \in Subs : Disconnect(s)
    \/ \E m \in WsLogs : BroadcastLookup(m)
    \/ \E q \in SubQueries : BroadcastQuery(q)
    \/ BroadcastReturn

SpecWs == MoreStart /\ [][WsNext]_vars

(***************************************************************************)
(* Blossom uploads (BlossomService in internal/nostr/events.go): khatru    *)
(* calls rejectUpload and then storeBlob for every upload request, each    *)
(* request in its own goroutine.                                           *)
(***************************************************************************)
\* what rejectUpload finds: the upload is fine, or one of its rejections
UploadChecks == {"ok", "too large", "no auth", "no hash", "member error",
                 "not member"}

\* rejectUpload(ctx, auth, size, ext)
rejectUpload(u, x, g, check) ==
    /\ upc[u] = "new"
    /\ check \in {"member error", "not member"} => g # ""
    /\ usha' = [usha EXCEPT ![u] = x]
    /\ ugroup' = [ugroup EXCEPT ![u] = g]
    /\ IF check = "ok"
       THEN /\ pendingUploads' = [pendingUploads EXCEPT ![x] = g]
            /\ upc' = [upc EXCEPT ![u] = "admitted"]
       ELSE /\ upc' = [upc EXCEPT ![u] = "rejected"]
            /\ UNCHANGED pendingUploads
    /\ UNCHANGED <<notBlob, ukey, s3>>

\* buildS3Key(groupID, sha256)
buildS3Key(groupID, sha256) ==
    IF groupID # "" THEN <<"blobs", groupID, sha256>>
    ELSE <<"blobs", sha256>>

\* the group storeBlob gets from s.pendingUploads.LoadAndDelete(sha256)
LoadedGroup(x) ==
    IF pendingUploads[x] # "absent" THEN pendingUploads[x] ELSE ""

\* storeBlob(ctx, sha256, body)
storeBlob(u, ok) ==
    /\ upc[u] = "admitted"
    /\ pendingUploads' = [pendingUploads EXCEPT ![usha[u]] = "absent"]
    /\ IF ok
       THEN /\ s3' = s3 \cup {buildS3Key(LoadedGroup(usha[u]), usha[u])}
            /\ ukey' = [ukey EXCEPT
                          ![u] = buildS3Key(LoadedGroup(usha[u]), usha[u])]
            /\ upc' = [upc EXCEPT ![u] = "stored"]
       ELSE /\ upc' = [upc EXCEPT ![u] = "failed"]
            /\ UNCHANGED <<s3, ukey>>
    /\ UNCHANGED <<notBlob, usha, ugroup>>

BlobNext ==
    \/ \E u \in 1..MaxUploads, x \in 1..MaxHashes, g \in GroupIDs,
          check \in UploadChecks : rejectUpload(u, x, g, check)
    \/ \E u \in 1..MaxUploads, ok \in BOOLEAN : storeBlob(u, ok)

SpecBlob == MoreStart /\ [][BlobNext]_vars

(***************************************************************************)
(* The NIP-29 group enforcer (internal/nostr/events.go, package groups),   *)
(* for one group. CreatedAt of a stored event is its position in modLog;   *)
(* of the relay-generated lists the one saved last is the one queried.     *)
(***************************************************************************)
Pubkeys == {"A", "B", "C"}

Roles == {"member", "admin"}

\* kinds outside the switch of ValidateEvent, carrying an h tag
OtherKinds == {1}

ContentKinds == {KindGroupChat, KindGroupReply, KindGroupThreaded,
                 KindGroupChatReply} \cup OtherKinds

\* an event with h = the group and at most one p tag [target, role]
GEvent(k, a, t, r) == [kind |-> k, author |-> a, target |-> t, role |-> r]

ModEvents ==
    {GEvent(KindCreateGroup, a, a, "none") : a \in Pubkeys}
    \cup {GEvent(KindPutUser, a, t, r) : a \in Pubkeys, t \in Pubkeys, r \in Roles}
    \cup {GEvent(KindRemoveUser, a, t, "none") : a \in Pubkeys, t \in Pubkeys}
    \cup {GEvent(KindLeaveRequest, a, a, "none") : a \in Pubkeys}
    \cup {GEvent(KindDeleteGroup, a, "none", "none") : a \in Pubkeys}

\* events whose storage changes nothing the validators read: 9002 and 9005
\* of an admin, 9021 of anyone
RequestEvents ==
    {GEvent(k, a, "none", "none") :
        k \in {KindEditMetadata, KindDeleteEvent, KindJoinRequest},
        a \in Pubkeys}

ContentEvents == {GEvent(k, a, a, "none") : k \in ContentKinds, a \in Pubkeys}

Max(S) == CHOOSE x \in S : \A y \in S : y <= x

\* the p tags of a relay-generated list event (none if there is no event)
Keys(listEv) == IF listEv = <<>> THEN {} ELSE listEv[1]

appendUnique(slice, item) == slice \cup {item}

removeFromSlice(slice, item) == slice \ {item}

\* positions of the stored events of the given kinds with p = pk
About(log, kinds, pk) ==
    {i \in 1..Len(log) : log[i].kind \in kinds /\ log[i].target = pk}

checkNotRemoved(log, pk, afterTime) ==
    About(log, {KindRemoveUser}, pk) \cap afterTime..Len(log) = {}

isAdminFromModEvents(log, pk) ==
    \/ \E i \in 1..Len(log) :
          log[i].kind = KindCreateGroup /\ log[i].author = pk
    \/ LET puts == About(log, {KindPutUser}, pk)
       IN /\ puts # {}
          /\ log[Max(puts)].role = "admin"
          /\ checkNotRemoved(log, pk, Max(puts))

IsAdmin(admins, log, pk) ==
    \/ pk \in Keys(admins)
    \/ isAdminFromModEvents(log, pk)

isMemberFromModEvents(log, pk) ==
    LET evs == About(log, {KindPutUser, KindRemoveUser}, pk)
    IN evs # {} /\ log[Max(evs)].kind = KindPutUser

IsMember(admins, members, log, pk) ==
    \/ IsAdmin(admins, log, pk)
    \/ pk \in Keys(members)
    \/ isMemberFromModEvents(log, pk)

groupExists(log) == \E i \in 1..Len(log) : log[i].kind = KindCreateGroup

\* ValidateEvent: TRUE if the event is not rejected
Admits(ev, admins, members, log) ==
    CASE ev.kind = KindCreateGroup -> ~groupExists(log)
      [] ev.kind = KindPutUser ->
            /\ IsAdmin(admins, log, ev.author)
            /\ ev.role = "admin" => IsMember(admins, members, log, ev.target)
      [] ev.kind = KindRemoveUser -> IsAdmin(admins, log, ev.author)
      [] ev.kind \in {KindEditMetadata, KindDeleteEvent, KindDeleteGroup} ->
            IsAdmin(admins, log, ev.author)
      [] ev.kind = KindJoinRequest -> groupExists(log)
      [] ev.kind = KindLeaveRequest -> IsMember(admins, members, log, ev.author)
      [] OTHER -> IsMember(admins, members, log, ev.author)

Flight(ev, pc, tmp) == [ev |-> ev, pc |-> pc, tmp |-> tmp]

Unstored == {f \in inflight : f.pc = "validated"}

\* the relay runs the RejectEvent hooks on an incoming event
ValidateEvent(ev) ==
    /\ verdict = <<>>
    /\ ev \in ModEvents =>
          /\ Cardinality(inflight) < MaxInFlight
          /\ Len(modLog) + Cardinality(Unstored) < MaxMod
          /\ Flight(ev, "validated", {}) \notin inflight
    /\ LET ok == Admits(ev, adminsEv, membersEv, modLog)
       IN /\ verdict' = <<[ev |-> ev, admitted |-> ok]>>
          /\ inflight' = IF ok /\ ev \in ModEvents
                         THEN inflight \cup {Flight(ev, "validated", {})}
                         ELSE inflight
    /\ UNCHANGED <<notGroups, modLog, adminsEv, membersEv>>

\* the relay answers the client (OK true / OK false with the reason)
AnswerClient ==
    /\ verdict # <<>>
    /\ verdict' = <<>>
    /\ UNCHANGED <<notGroups, modLog, adminsEv, membersEv, inflight>>

Moved(f, pc, tmp) == (inflight \ {f}) \cup {Flight(f.ev, pc, tmp)}

\* the relay stores an admitted moderation event; OnEventSaved has no case
\* for a 9008, whose handling ends here
StoreEvent(f) ==
    /\ verdict = <<>>
    /\ f.pc = "validated"
    /\ modLog' = Append(modLog, f.ev)
    /\ inflight' = IF f.ev.kind = KindDeleteGroup
                   THEN inflight \ {f}
                   ELSE Moved(f, "stored", {})
    /\ UNCHANGED <<notGroups, adminsEv, membersEv, verdict>>

\* handleGroupCreated: generateAdminsList(groupID, [creator])
GroupCreatedAdmins(f) ==
    /\ verdict = <<>>
    /\ f.pc = "stored"
    /\ f.ev.kind = KindCreateGroup
    /\ adminsEv' = <<{f.ev.author}>>
    /\ inflight' = Moved(f, "adminsWritten", {})
    /\ UNCHANGED <<notGroups, modLog, membersEv, verdict>>

\* handleGroupCreated: generateMembersList(groupID, [])
GroupCreatedMembers(f) ==
    /\ verdict = <<>>
    /\ f.pc = "adminsWritten"
    /\ f.ev.kind = KindCreateGroup
    /\ membersEv' = <<{}>>
    /\ inflight' = inflight \ {f}
    /\ UNCHANGED <<notGroups, modLog, adminsEv, verdict>>

\* the hooks of 9001 and 9022 and of a 9000 with role admin update the
\* admins list
TouchesAdmins(ev) ==
    \/ ev.kind \in {KindRemoveUser, KindLeaveRequest}
    \/ ev.kind = KindPutUser /\ ev.role = "admin"

\* the list a hook writes back, from the list it read
Updated(ev, list) ==
    IF ev.kind = KindPutUser
    THEN appendUnique(list, ev.target)
    ELSE removeFromSlice(list, ev.target)

\* admins, _ := g.getAdmins(ctx, groupID)
ReadAdmins(f) ==
    /\ verdict = <<>>
    /\ f.pc = "stored"
    /\ f.ev.kind # KindCreateGroup
    /\ TouchesAdmins(f.ev)
    /\ inflight' = Moved(f, "adminsRead", Keys(adminsEv))
    /\ UNCHANGED <<notGroups, modLog, adminsEv, membersEv, verdict>>

\* g.generateAdminsList(ctx, groupID, admins)
WriteAdmins(f) ==
    /\ verdict = <<>>
    /\ f.pc = "adminsRead"
    /\ adminsEv' = <<Updated(f.ev, f.tmp)>>
    /\ inflight' = Moved(f, "adminsWritten", {})
    /\ UNCHANGED <<notGroups, modLog, membersEv, verdict>>

\* members, _ := g.getMembers(ctx, groupID)
ReadMembers(f) ==
    /\ verdict = <<>>
    /\ f.ev.kind # KindCreateGroup
    /\ \/ f.pc = "adminsWritten"
       \/ f.pc = "stored" /\ ~TouchesAdmins(f.ev)
    /\ inflight' = Moved(f, "membersRead", Keys(membersEv))
    /\ UNCHANGED <<notGroups, modLog, adminsEv, membersEv, verdict>>

\* g.generateMembersList(ctx, groupID, members): the hook is over
WriteMembers(f) ==
    /\ verdict = <<>>
    /\ f.pc = "membersRead"
    /\ membersEv' = <<Updated(f.ev, f.tmp)>>
    /\ inflight' = inflight \ {f}
    /\ UNCHANGED <<notGroups, modLog, adminsEv, verdict>>

GroupsNext ==
    \/ \E ev \in ModEvents \cup RequestEvents \cup ContentEvents :
          ValidateEvent(ev)
    \/ AnswerClient
    \/ \E f \in inflight : StoreEvent(f)
    \/ \E f \in inflight : GroupCreatedAdmins(f)
    \/ \E f \in inflight : GroupCreatedMembers(f)
    \/ \E f \in inflight : ReadAdmins(f)
    \/ \E f \in inflight : WriteAdmins(f)
    \/ \E f \in inflight : ReadMembers(f)
    \/ \E f \in inflight : WriteMembers(f)

SpecGroups == GroupsStart /\ [][GroupsNext]_vars

(***************************************************************************)
(* The membership check of a Blossom upload that names the group           *)
(* (internal/nostr/events.go, package blossom), next to the enforcer.      *)
(***************************************************************************)
\* BlossomService.isGroupMember: the latest 39002 list, else a 9000 for the
\* pubkey with no 9001 since
isGroupMember(members, log, pk) ==
    \/ pk \in Keys(members)
    \/ LET adds == About(log, {KindPutUser}, pk)
       IN /\ adds # {}
          /\ About(log, {KindRemoveUser}, pk) \cap Max(adds)..Len(log) = {}

\* rejectUpload for an auth event of pk with h = the group; next to its
\* answer, what validateGroupContent answers for a kind-9 event of pk with
\* the store as it is
UploadAdmission(pk) ==
    /\ admission = <<>>
    /\ verdict = <<>>
    /\ admission' =
          <<[pk |-> pk,
             upload |-> isGroupMember(membersEv, modLog, pk),
             content |-> Admits(GEvent(KindGroupChat, pk, pk, "none"),
                                adminsEv, membersEv, modLog)]>>
    /\ UNCHANGED <<coreVars, repostVars, matchVars, wsVars, blobVars,
                   identity, topicVars, sponsorVars>>

\* the upload is answered (403 for a non-member)
UploadAnswered ==
    /\ admission # <<>>
    /\ admission' = <<>>
    /\ UNCHANGED <<coreVars, repostVars, matchVars, wsVars, blobVars,
                   identity, topicVars, sponsorVars>>

AdmissionNext ==
    \/ admission = <<>> /\ GroupsNext
    \/ \E pk \in Pubkeys : UploadAdmission(pk)
    \/ UploadAnswered

SpecAdmission == GroupsStart /\ [][AdmissionNext]_vars

(***************************************************************************)
(* Properties of the bundler.                                              *)
(***************************************************************************)
StrictlyIncreasing(seq) ==
    \A i \in 1..Len(seq) : \A j \in 1..Len(seq) : i < j => seq[i] < seq[j]

\* C1: for every sponsor, the nonces of the transactions sendTransaction
\* accepted are strictly increasing, whatever the interleaving of Process
\* with the chain and the tx-waiter completions.
NoncesStrictlyIncreasing ==
    \A s \in Sponsors : StrictlyIncreasing(accepted[s])

\* C2: as long as nothing failed for the sponsor, nothing of it was mined and
\* no tx-waiter of it completed, the i-th transaction accepted for the
\* sponsor carries the on-chain nonce plus i - 1 (5, 6, 7 from nonce 5).
SequentialNonces ==
    \A s \in Sponsors :
        quiet[s] => \A i \in 1..Len(accepted[s]) :
                       accepted[s][i] = chainNonce[s] + i - 1

\* three sequential Process calls for one sponsor were accepted with the
\* nonces 5, 6, 7 and no receipt in between
ThreeSequentialNonces ==
    \E s \in Sponsors :
        /\ quiet[s]
        /\ chainNonce[s] = 5
        /\ accepted[s] = <<5, 6, 7>>
        /\ Len(inProgress[s]) = 3
        /\ ppc = "idle"

\* C8: once sendTransaction succeeded and Process moved on to the next
\* sponsor, every caller that was waiting on a message of the batch has
\* received the signed transaction hash.
CallersReceiveHash ==
    ppc = "pick" => \A i \in sentWaiting : batch[i].caller = "hash"

(***************************************************************************)
(* Properties of the response channel.                                     *)
(***************************************************************************)
\* C9: a caller in WaitForResponse always returns, no later than the
\* deadline of its timer, with the producer's response or with the request
\* timeout; it never blocks for ever.
WaitForResponseReturns ==
    (waitPc = "selecting")
        ~> (/\ waitPc = "returned"
            /\ waitResult \in Responses \cup {"request timeout"}
            /\ elapsed <= deadline)

\* the caller returned with the request timeout when the deadline was reached
TimedOutAtDeadline ==
    /\ waitPc = "returned"
    /\ waitResult = "request timeout"
    /\ elapsed = deadline

\* C10: Respond never ends in a panic: a send on a response channel that the
\* consumer closed, before the send or while it blocks, is recovered and
\* Respond returns normally.
RespondNeverPanics ==
    /\ respondPc # "panicked"
    /\ recovered => chClosed /\ waitPc = "returned"

\* the consumer timed out and closed the channel, the producer's send
\* panicked, was recovered, and Respond returned
RecoveredAfterTimeout ==
    /\ recovered
    /\ respondPc = "idle"
    /\ waitResult = "request timeout"

(***************************************************************************)
(* Properties of the queue.                                                *)
(***************************************************************************)
InSeq(q, id) == \E j \in 1..Len(q) : q[j].id = id

Copies(q, id) == Cardinality({j \in 1..Len(q) : q[j].id = id})

\* the queue holds the message nowhere any more
Gone(id) == ~InSeq(queue, id) /\ ~InSeq(qbatch, id) /\ ~InSeq(qinvalid, id)

AlwaysInvalid == {a \in qaccepted : ~a.valid}

ValidProcessedExactlyOnce ==
    \A a \in qaccepted :
        a.valid => Copies(queue, a.id) + Copies(qbatch, a.id)
                   + processed[a.id] = 1

\* every offered message was valid and accepted, and each was processed once
AllValidProcessed ==
    /\ qpc = "idle"
    /\ queue = <<>>
    /\ Cardinality(qaccepted) >= 2
    /\ \A a \in qaccepted : a.valid /\ processed[a.id] = 1


\* C11: enqueue never blocks the caller. While the buffer has space the
\* message is accepted, with a warning on the error channel exactly when
\* the occupancy reached is at or above 90 % of the buffer; when the buffer
\* is full the message is dropped, the queue is left as it was and "queue
\* is full" is emitted on the error channel.
EnqueueNeverBlocks ==
    /\ [](nextId < MaxMsgs => ENABLED (\E v \in BOOLEAN : Enqueue(v)))
    /\ [][nextId' # nextId =>
            LET id == nextId'
            IN IF Len(queue) < Buffer
               THEN /\ Len(queue') = Len(queue) + 1
                    /\ queue'[Len(queue')].id = id
                    /\ \E a \in qaccepted' : a.id = id
                    /\ QErr(id, "queue is full") \notin errChan'
                    /\ QErr(id, "queue is almost full") \in errChan'
                         <=> (Len(queue) + 1) * 10 >= Buffer * 9
               ELSE /\ queue' = queue
                    /\ qaccepted' = qaccepted
                    /\ QErr(id, "queue is full") \in errChan']_vars

\* the producers met every case: an offer accepted without a warning, one
\* accepted with the warning, and one dropped on the full buffer
EnqueueMetFullBuffer ==
    /\ Len(queue) = Buffer
    /\ \E i, j, k \in 1..MaxMsgs :
          /\ \E a \in qaccepted : a.id = i
          /\ \A e \in errChan : e.id # i
          /\ QErr(j, "queue is almost full") \in errChan
          /\ \E a \in qaccepted : a.id = j
          /\ QErr(k, "queue is full") \in errChan
          /\ \A a \in qaccepted : a.id # k

(***************************************************************************)
(* Properties of eth_sendUserOperation.                                    *)
(***************************************************************************)
\* C12: a request whose message was dropped because the queue was full
\* fails with "queue is full"; it does not run into the response timeout.
DroppedCallerSeesQueueFull ==
    \A c \in 1..MaxCallers :
        (QErr(c, "queue is full") \in errChan /\ sendPc[c] = "returned")
            => sendResult[c] = "queue is full"

(***************************************************************************)
(* Properties of the group enforcer.                                       *)
(***************************************************************************)
\* the effect of one stored moderation event on the admin and member sets
ApplyMod(st, ev) ==
    CASE ev.kind = KindCreateGroup ->
            [admins |-> {ev.author}, members |-> {}]
      [] ev.kind = KindPutUser ->
            [admins |-> IF ev.role = "admin"
                        THEN appendUnique(st.admins, ev.target)
                        ELSE st.admins,
             members |-> appendUnique(st.members, ev.target)]
      [] ev.kind = KindDeleteGroup -> st
      [] OTHER ->
            [admins |-> removeFromSlice(st.admins, ev.target),
             members |-> removeFromSlice(st.members, ev.target)]

\* the sets obtained by replaying the first n events of the log in order
RECURSIVE Replay(_, _)
Replay(log, n) ==
    IF n = 0 THEN [admins |-> {}, members |-> {}]
    ELSE ApplyMod(Replay(log, n - 1), log[n])

\* the pubkeys that are members of the group according to the stored log
CurrentMembers(log) ==
    Replay(log, Len(log)).admins \cup Replay(log, Len(log)).members

\* the group was created by exactly one 9007, the first stored event
CreatedOnce(log) ==
    /\ Len(log) >= 1
    /\ log[1].kind = KindCreateGroup
    /\ \A i \in 2..Len(log) : log[i].kind # KindCreateGroup

\* pk was only ever put with the role member and never left by itself
PlainUser(log, pk) ==
    /\ \A i \in About(log, {KindPutUser}, pk) : log[i].role = "member"
    /\ About(log, {KindLeaveRequest}, pk) = {}

\* C3: in a group created by a 9007, a kind-9 event of a user is rejected
\* while no 9000 for the user is stored, admitted when the last stored
\* 9000/9001 for the user is a 9000, and rejected when it is a 9001.
GroupAdmissionSequence ==
    \A i \in 1..Len(verdict) :
        LET v == verdict[i]
            evs == About(modLog, {KindPutUser, KindRemoveUser}, v.ev.author)
        IN (/\ v.ev.kind = KindGroupChat
            /\ CreatedOnce(modLog)
            /\ v.ev.author # modLog[1].author
            /\ PlainUser(modLog, v.ev.author))
           => /\ evs = {} => ~v.admitted
              /\ evs # {} /\ modLog[Max(evs)].kind = KindPutUser => v.admitted
              /\ evs # {} /\ modLog[Max(evs)].kind = KindRemoveUser => ~v.admitted

\* C4: an event with an h tag of a content kind, or of any kind outside the
\* moderation kinds, is admitted only if its author is a member of the
\* group (created by one 9007) according to the moderation events stored
\* at validation time.
OnlyMembersPost ==
    \A i \in 1..Len(verdict) :
        (/\ verdict[i].ev.kind \in ContentKinds
         /\ verdict[i].admitted
         /\ CreatedOnce(modLog))
            => verdict[i].ev.author \in CurrentMembers(modLog)

\* C5: when every admitted moderation event of a group created once is
\* stored and its hook has run, the 39001 and 39002 lists hold the sets
\* obtained by replaying the moderation log in order.
ListsEqualReplay ==
    (inflight = {} /\ CreatedOnce(modLog))
        => /\ Keys(adminsEv) = Replay(modLog, Len(modLog)).admins
           /\ Keys(membersEv) = Replay(modLog, Len(modLog)).members

\* positions of the stored events of a kind
Stored(log, kind) == {i \in 1..Len(log) : log[i].kind = kind}

\* C13: at most one 9007 per group is ever admitted and stored, also when
\* two of them are validated before either is stored.
AtMostOneCreation == Cardinality(Stored(modLog, KindCreateGroup)) <= 1

\* the moderation kinds reserved to admins
AdminKinds == {KindPutUser, KindRemoveUser, KindEditMetadata,
               KindDeleteEvent, KindDeleteGroup}

\* C14: an event of kind 9000, 9001, 9002, 9005 or 9008 is admitted only
\* if its author is an admin of the group (created by one 9007) according
\* to the moderation events stored at validation time.
OnlyAdminsModerate ==
    \A i \in 1..Len(verdict) :
        (/\ verdict[i].ev.kind \in AdminKinds
         /\ verdict[i].admitted
         /\ CreatedOnce(modLog))
            => verdict[i].ev.author \in Replay(modLog, Len(modLog)).admins

\* C15: once a 9001 targeting the author of the 9007 is stored (its hook
\* run, and the creator not put again), the creator's moderation events for
\* the group are rejected.
RemovedCreatorIsNoAdmin ==
    \A i \in 1..Len(verdict) :
        (/\ CreatedOnce(modLog)
         /\ inflight = {}
         /\ verdict[i].ev.author = modLog[1].author
         /\ verdict[i].ev.kind \in AdminKinds
         /\ About(modLog, {KindRemoveUser}, modLog[1].author) # {}
         /\ About(modLog, {KindPutUser}, modLog[1].author) = {})
            => ~verdict[i].admitted

\* C16: when the hooks of a group created by one 9007 have run, every
\* pubkey of the 39001 admins list is also in the 39002 members list.
AdminsAreMembers ==
    (inflight = {} /\ CreatedOnce(modLog))
        => Keys(adminsEv) \subseteq Keys(membersEv)

\* C17: after a 9008 of an admin is stored, join requests and content
\* events for the group are rejected.
DeletedGroupAdmitsNothing ==
    \A i \in 1..Len(verdict) :
        (/\ Stored(modLog, KindDeleteGroup) # {}
         /\ inflight = {}
         /\ verdict[i].ev.kind \in ContentKinds \cup {KindJoinRequest})
            => ~verdict[i].admitted

(***************************************************************************)
(* Properties of the indexer.                                              *)
(***************************************************************************)
\* ListenForLogs has returned
ListenerReturned(e) == lpc[e] \in {"sendquit", "done"}

\* C18: ListenForLogs returns only when its context is cancelled; after a
\* failed subscribe attempt or a subscription error it waits and
\* subscribes again.
ListenForLogsNeverReturns ==
    /\ [](\A e \in 1..MaxEvents : ListenerReturned(e) => ctxDone)
    /\ [][\A e \in 1..MaxEvents :
            /\ (lpc[e] = "backoff" /\ lpc'[e] # lpc[e])
                  => lpc'[e] = "subscribe"
            /\ (lpc[e] \in {"subscribe", "select"} /\ lpc'[e] # lpc[e]
                 /\ ~ListenerReturned(e)')
                  => lpc'[e] \in {"select", "backoff"}]_vars

\* after two backoffs a loop subscribes again, its context still live
ResubscribedTwice ==
    \E e \in 1..MaxEvents :
        /\ lpc[e] = "subscribe" /\ resubs >= 2 /\ ~ctxDone
        /\ \A o \in 1..MaxEvents : o # e => lpc[o] = "notyet"

\* C19: once the context is cancelled every ListenForLogs loop that was
\* started eventually returns.
CancelledListenersReturn ==
    \A e \in 1..MaxEvents :
        (ctxDone /\ lpc[e] # "notyet") ~> ListenerReturned(e)

\* C20: a worker whose save failed takes no further log: it is in the send
\* on the quit channel that Indexer.Start is receiving from, or Start has
\* returned an error (the worker's, unless the error of another goroutine
\* was received first). Start returns a store error only from a worker
\* that failed and stopped.
SaveErrorIsFatal ==
    /\ \A e \in 1..MaxEvents :
          werr[e] = "store error"
              => \/ wpc[e] = "sendquit" /\ startPc = "waiting"
                 \/ /\ wpc[e] \in {"sendquit", "stopped"}
                    /\ startPc = "returned"
                    /\ startErr # "none"
    /\ \A e \in 1..MaxEvents :
          wpc[e] = "stopped" => startPc = "returned" /\ startErr = werr[e]
    /\ startErr = "store error"
          => \E e \in 1..MaxEvents :
                werr[e] = "store error" /\ wpc[e] = "stopped"

\* Start returned the store error of a worker
StartReturnedStoreError ==
    /\ startPc = "returned"
    /\ startErr = "store error"
    /\ \E e \in 1..MaxEvents : wpc[e] = "stopped" /\ werr[e] = "store error"

(***************************************************************************)
(* Properties of the pending descriptions.                                 *)
(***************************************************************************)
\* C21: for a log whose hash had a description attached when its event was
\* saved: once the worker is through with the log, one quote-repost was
\* saved and the pending row is deleted, the row is never deleted before
\* the repost is saved, and no delivery of the log adds a second repost.
RepostOnceThenDelete ==
    \A h \in 1..MaxHashes :
        /\ reposts[h] <= 1
        /\ described[h] = "text" =>
              /\ (rwpc = "idle" /\ delivered[h] >= 1)
                    => reposts[h] = 1 /\ dataDB[h] = "none"
              /\ dataDB[h] = "none" => reposts[h] = 1

\* the log with a description was delivered twice and reposted once
DuplicateDeliveryNoRepost ==
    \E h \in 1..MaxHashes :
        /\ described[h] = "text"
        /\ delivered[h] = 2
        /\ rwpc = "idle"
        /\ reposts[h] = 1


(***************************************************************************)
(* The WebSocket pools.                                                    *)
(***************************************************************************)
\* C22: a pool exists only once a subscriber has arrived; when Connect
\* returns, the subscriber's connection is registered in an open pool; a
\* closed pool never gains a connection.
ConnectJoinsOpenPool ==
    [][/\ nPools' > 0 => \E s \in Subs : spc'[s] # "out"
       /\ \A s \in Subs :
              (spc[s] = "lookedup" /\ spc'[s] = "in")
                  => (s \in poolConns'[sPool'[s]] /\ poolOpen'[sPool'[s]])
       /\ \A p \in 1..MaxPools :
              ~poolOpen[p] => poolConns'[p] \subseteq poolConns[p]]_vars

\* C23: when BroadcastMessage returns, the message was rendered once, the
\* bytes went only to connections of the pool registered under the
\* message's pool id whose query matches the message, and every such
\* connection still in the pool has them.
BroadcastReachesMatchingMembers ==
    [][(bpc # "returned" /\ bpc' = "returned" /\ bMsg'.pool # "none") =>
          /\ renders' = 1
          /\ \A s \in bGot' :
                /\ sPool[s] = registry[bMsg'.pool]
                /\ spc[s] \in {"in", "gone"}
                /\ MatchesQuery(bMsg'.data, sQuery[s])
          /\ \A s \in Subs :
                (/\ registry[bMsg'.pool] # 0
                 /\ s \in poolConns'[registry[bMsg'.pool]]
                 /\ MatchesQuery(bMsg'.data, sQuery[s]))
                    => s \in bGot']_vars

\* the parameter is a pair k=v whose key has the prefix and whose value is
\* the "%v" form of the data field the key names
PairMatches(l, param) ==
    \E i \in 1..Len(param) :
        /\ param[i] = "="
        /\ \A j \in 1..(i - 1) : param[j] # "="
        /\ i > 1
        /\ param[1] = "data."
        /\ l.ok
        /\ SubSeq(param, 2, i - 1) \in DOMAIN l.obj
        /\ Sprintf(l.obj[SubSeq(param, 2, i - 1)])
               = SubSeq(param, i + 1, Len(param))

BlobStoredUnderItsGroup ==
    \A u \in 1..MaxUploads :
        upc[u] = "stored" =>
            ukey[u] = IF ugroup[u] # "" THEN <<"blobs", ugroup[u], usha[u]>>
                      ELSE <<"blobs", usha[u]>>

(***************************************************************************)
(* The identity of queued messages.                                        *)
(***************************************************************************)
\* C26: no two messages in the queue have the same identity
\* userop:{chainID}{userOpHash}.
NoTwoQueuedWithSameIdentity ==
    \A i, j \in 1..Len(queue) :
        i # j => identity[queue[i].id] # identity[queue[j].id]

(***************************************************************************)
(* Topics and IsValidData.                                                 *)
(***************************************************************************)
\* C27: whenever ParseTopicsFromHashes decodes a log, the object form of
\* the topics satisfies IsValidData of the event.
DecodedTopicsAreValidData ==
    (tsResult # <<>> /\ tsResult[1].status = "ok") => tsResult[1].valid

(***************************************************************************)
(* pm_ooSponsorUserOperation.                                              *)
(***************************************************************************)
\* C28: a successful pm_ooSponsorUserOperation returns as many signed user
\* operations as the caller's amount, and ten when the caller gave none.
ReturnsAmountOrTen ==
    (spResult # <<>> /\ spResult[1].err = "none") =>
        spResult[1].ops = IF spAmount.t \in {"number", "digits"}
                          THEN spAmount.n
                          ELSE 10

(***************************************************************************)
(* The bundler's reactions to a failed sendTransaction.                    *)
(***************************************************************************)
\* the step in which Process handled a failed send by appending err
SendFailedWith(errs) ==
    /\ ppc = "send"
    /\ ppc' = "pick"
    /\ Len(errors') > Len(errors)
    /\ errors'[Len(errors')] \in errs

\* C29: on code -32010 every message of the sponsor's group is returned for
\* re-enqueue with its bumpGas one higher than on entry, and the group's tx
\* hash is out of inProgress.
ReplaceReturnsAllBumped ==
    [][SendFailedWith({"replace"}) =>
          /\ \A i \in Range(MsgsOf(batch, cur)) :
                /\ \E j \in (Len(invalid) + 1)..Len(invalid') : invalid'[j] = i
                /\ batch'[i].bump = batch[i].bump + 1
          /\ curTx \notin Range(inProgress'[cur])]_vars

\* C30: on another RPC error, or on insufficient funds, every message of
\* the sponsor's group is returned unchanged as invalid with the error, and
\* the group's tx hash is out of inProgress while Process is still running.
RejectReturnsAllWithError ==
    [][SendFailedWith({"rpc", "insufficient funds"}) =>
          /\ invalid' = invalid \o MsgsOf(batch, cur)
          /\ errors' = errors \o [k \in 1..Len(MsgsOf(batch, cur)) |->
                                     errors'[Len(errors')]]
          /\ batch' = batch
          /\ curTx \in Range(inProgress[cur])
          /\ curTx \notin Range(inProgress'[cur])]_vars

GroupOfTwoRejected ==
    /\ ppc = "pick"
    /\ Len(invalid) = 2
    /\ errors = <<"insufficient funds", "insufficient funds">>
    /\ curTx # 0
    /\ curTx \notin Range(inProgress[cur])


(***************************************************************************)
(* The life of a hash in inProgress.                                       *)
(***************************************************************************)
\* C31: once Process is done with a sponsor's group, every hash left in
\* inProgress belongs to a transaction in flight, one whose tx-waiter is
\* still running; the hash of a group that was not sent is gone before
\* Process moves on.
InProgressOnlyInFlight ==
    ppc \in {"pick", "idle"} =>
        \A s \in Sponsors : \A h \in Range(inProgress[s]) :
            [sponsor |-> s, tx |-> h] \in waiters


\* C32: Process reads inProgress[sponsor] for the nonce only while no
\* tx-waiter is inside its critical section on the map, as every access
\* under the mutex would.
ReadsInProgressUnderMutex ==
    [][(ppc = "readInProgress" /\ ppc' # "readInProgress") => smu = {}]_vars

(***************************************************************************)
(* The fee tier of a sponsor's transaction.                                *)
(***************************************************************************)
\* C38: the transaction signed for a sponsor's group has a fee cap no lower
\* than the one NewTx gives for the largest bumpGas among the group's
\* messages.
PricedAtLargestBump ==
    ppc = "send" =>
        \A i \in Range(MsgsOf(batch, cur)) :
            GasFeeCap(extraGas) >= GasFeeCap(batch[i].bump)


(***************************************************************************)
(* What Process has done with each message when it returns.                *)
(***************************************************************************)
\* number of times message i is in the invalid list
TimesInvalid(i) == Cardinality({j \in 1..Len(invalid) : invalid[j] = i})

\* C34: when Process is about to return, every message of the batch whose
\* caller has not given up has exactly one outcome: its caller received the
\* tx hash, or it is in the invalid list exactly once; never both, never
\* neither.
ExactlyOneOutcome ==
    (ppc = "pick" /\ todo = {}) =>
        \A i \in 1..Len(batch) :
            batch[i].caller # "closed" =>
                /\ TimesInvalid(i) <= 1
                /\ (batch[i].caller = "hash") # (TimesInvalid(i) = 1)


\* C35: whatever error sendTransaction returns, Process goes on to the next
\* sponsor (and so returns) with an error recorded for every message of the
\* group and the group's tx hash out of inProgress.
SendErrorsReturnNormally ==
    [][(ppc = "send" /\ ppc' # "send" /\ mempool' = mempool) =>
          /\ ppc' = "pick"
          /\ Len(errors') = Len(errors) + Len(MsgsOf(batch, cur))
          /\ curTx \notin Range(inProgress'[cur])]_vars


\* C40: at every point of Process between two sponsors, and so when it
\* returns, the invalid list and the errors list have the same length.
InvalidAndErrorsAligned ==
    ppc = "pick" => Len(invalid) = Len(errors)


(***************************************************************************)
(* Logs the indexer cannot decode.                                         *)
(***************************************************************************)
\* C33: no log ends a worker by a panic: a log whose topics do not decode,
\* one with fewer topic hashes than indexed arguments included, leaves the
\* worker receiving the next log.
UndecodableLogsAreSkipped ==
    \A e \in 1..MaxEvents : wpc[e] # "panicked"


(***************************************************************************)
(* Properties of leaving, of concurrent hooks and of upload admission.     *)
(***************************************************************************)
\* C36: once every hook has run and the latest 9000 or 9022 about a pubkey
\* is its own 9022, a content event of that pubkey for the group is
\* rejected.
LeftMembersAreRejected ==
    \A pk \in Pubkeys :
        LET evs == About(modLog, {KindPutUser, KindLeaveRequest}, pk) IN
        (/\ verdict # <<>>
         /\ verdict[1].ev \in ContentEvents
         /\ verdict[1].ev.author = pk
         /\ inflight = {}
         /\ evs # {}
         /\ modLog[Max(evs)].kind = KindLeaveRequest)
        => ~verdict[1].admitted

\* C37: the hook of a 9000 never takes a listed pubkey out of the 39002
\* list: what a concurrent hook added is still there when it has written.
AdditionsKeepWhatIsListed ==
    [][\A f \in inflight :
          (f.ev.kind = KindPutUser /\ f.pc = "membersRead"
           /\ f \notin inflight')
          => Keys(membersEv) \subseteq Keys(membersEv')]_vars

\* C39: an upload naming the group is admitted exactly when the enforcer
\* accepts a content event for the group from the same pubkey at that
\* moment.
UploadAdmissionMatchesEnforcer ==
    admission # <<>> => admission[1].upload = admission[1].content

=============================================================================
